---- MODULE Spec2Model ----
(***************************************************************************)
(* Verification model of distributed_commerce_crawler.                     *)
(*                                                                         *)
(* Part 1: utils/proxy_pool.py, class ProxyPool.  Two threads touch the    *)
(* pool: the thread that constructs it and afterwards calls                *)
(* get_working_proxy / report_failure / report_success ("main"), and the   *)
(* daemon thread started by _start_check_thread ("checker"), which runs    *)
(* _check_all_proxies in a loop.  Every `with self.lock` block is two      *)
(* steps (acquire, then body and release); statements outside a lock       *)
(* block (the probe, the len() test of line 99, the appends of a reload)   *)
(* are steps of their own that can interleave with the other thread.       *)
(* A candidate record carries proxy, score, fail_count, success_count and   *)
(* last_used (FALSE for None, TRUE once get_working_proxy has stamped it).  *)
(*                                                                         *)
(* Three specifications share the actions:                                 *)
(*   Spec      from before __init__ on, for every proxy file;              *)
(*   RunSpec   from a constructed pool on, with larger budgets;            *)
(*   DrainSpec from a constructed pool on, the main thread reporting only  *)
(*             failures until the active set is empty.                     *)
(***************************************************************************)
EXTENDS Integers, Sequences, FiniteSets, TLC

\* ------------------------------------------------------------------ bounds
\* Number of lines in the proxy list file is 0..MaxFile; addresses are 1..MaxFile.
MaxFile == 2
\* Spec (construction onwards): API calls of the main thread, iterations of
\* check_loop of the daemon thread, probes (_check_proxy calls) that fail.
MaxOps == 2
MaxPasses == 1
MaxProbeFails == 2
\* RunSpec (a constructed pool onwards): the same three budgets.
RunOps == 3
RunPasses == 2
RunProbeFails == 4
\* DrainSpec (a constructed pool, the network healthy): API calls, passes.
DrainOps == 19
DrainPasses == 1
\* Spiders: result pages 1..MaxPage; responses and failures delivered.
MaxPage == 3
MaxEvents == 2
MaxFresh == 1
\* Header generations: calls of _get_headers in a row.
MaxCalls == 20
\* Monitor: request outcomes recorded, workers, seconds of time looked at.
MaxOutcomes == 10
MaxWorkers == 2
MaxTime == 90
\* Stand-in for the interpreter's recursion limit (sys.getrecursionlimit()).
RecursionLimit == 4

\* ------------------------------------------------------- program constants
InitialScore == 100
MaxScore == 100
ProbeReward == 10
ProbePenalty == 20
ReportPenalty == 15
ReportReward == 5
FailCeiling == 5
min_working_proxies == 3

\* ------------------------------------------------------------------ values
\* Addresses are 1..MaxFile; None (the "no proxy" result) is not an address.
None == 0
Addr == 1..MaxFile
Main == "main"
Checker == "checker"
Threads == {Main, Checker}
\* self.lock when no thread holds it.
Free == "free"

Min(a, b) == IF a < b THEN a ELSE b
Max(a, b) == IF a > b THEN a ELSE b

VARIABLES
    file,             \* the lines of PROXY_LIST_PATH (a sequence of addresses)
    working_proxies,  \* self.working_proxies: sequence of candidate records
    lock,             \* self.lock: Free or the thread holding it
    pc,               \* pc[t]: where thread t is
    toCheck,          \* toCheck[t]: rest of proxies_to_check of t's pass
    is_working,       \* is_working[t]: result of t's last _check_proxy
    depth,            \* depth[t]: nesting of _check_all_proxies calls of t
    loadIdx,          \* loadIdx[t]: next line of the file t's reload appends
    arg,              \* proxy argument of the API call in progress
    got,              \* result of the last get_working_proxy (self.proxy)
    opsLeft,          \* API calls the main thread may still make
    passesLeft,       \* check_loop iterations the daemon may still make
    probeFailsLeft,   \* failing probes the network may still produce
    evicted,          \* history: <<address, cause>> of every eviction so far
    \* ---- a spider (spiders/*.py) and the requests it handles
    platform,         \* self.name: "jd", "pdd" or "taobao"
    session_id,       \* self.session_id: generation number of the session id
    device_id,        \* self.device_id: generation number of the device id
    proxy,            \* self.proxy: the spider's current proxy, or None
    task_counter,     \* self.task_counter: calls of _get_headers so far
    stats,            \* self.monitor.stats: success_requests, failed_requests
    queue,            \* requests the handlers have handed back to the scheduler
    last,             \* history: the last handler call and how it ended
    eventsLeft,       \* responses and failures the engine may still deliver
    \* ---- the backoff arithmetic of the retry paths
    backoff,          \* the retry path and retry count a delay is computed for
    \* ---- time, a monitor (utils/monitor.py) and the workers that call it
    now,              \* time.time(), in seconds since the monitor was made
    nodes,            \* self.stats['nodes']: worker id -> last_active
    alerts,           \* the Redis list 'alerts': every alert sent so far
    monitor_thread,   \* the thread of monitor_loop: "started" or how it ended
    ticks,            \* history: what each iteration of monitor_loop found
    registrations,    \* history: the _register_worker calls of the workers
    store_up,         \* whether the Redis server answers
    \* ---- the cookie store of an AntiCrawler (utils/anti_crawler.py)
    cookie_file,      \* what cookie_store.pkl holds
    cookie_store,     \* self.cookie_store, or what load_cookies left there
    cookie_call,      \* history: the last call on the cookie store
    cookieCallsLeft,  \* bound: calls on the cookie store still to be made
    \* ---- the user agents (utils/anti_crawler.py, middlewares.py)
    ua_file,          \* what the file at USER_AGENTS_PATH holds
    ua_source,        \* history: what it held when the lists were loaded
    ua_list,          \* AntiCrawler.ua_list
    mw_agents,        \* UserAgentMiddleware: its three lists
    ua_call,          \* history: the last request for a user agent
    \* ---- the scheduler's queue in Redis and the spiders that feed it
    started,          \* role -> whether that spider's start_requests has run
    seed_config,      \* the keywords of the configured start_urls
    seed_todo,        \* the (keyword, page) pairs start_requests has yet to visit
    seeds,            \* history: the seed tasks yielded so far, with the role
    frontier,         \* the pending requests, in the order they were pushed
    popped,           \* history: the last request dequeued and what was pending
    handledLeft       \* bound: requests still to be dequeued

spiderVars == <<platform, session_id, device_id, proxy, task_counter, stats,
                queue, last, eventsLeft>>

monitorVars == <<nodes, alerts, monitor_thread, ticks, registrations, store_up>>

cookieVars == <<cookie_file, cookie_store, cookie_call, cookieCallsLeft>>

agentVars == <<ua_file, ua_source, ua_list, mw_agents, ua_call>>

frontierVars == <<started, seed_config, seed_todo, seeds, frontier, popped,
                  handledLeft>>

\* What the handlers of a spider never touch (stats is the monitor's).
outsideSpider == <<backoff, now, monitorVars, cookieVars, agentVars, frontierVars>>

\* What the threads of a proxy pool never touch.
outsidePool == <<spiderVars, outsideSpider>>

vars == <<file, working_proxies, lock, pc, toCheck, is_working, depth, loadIdx,
          arg, got, opsLeft, passesLeft, probeFailsLeft, evicted, outsidePool>>

\* ------------------------------------------------- spiders: the values
\* JDSpider, PDDSpider and TaobaoSpider (spiders/*.py), by their `name`.
Platforms == {"jd", "pdd", "taobao"}

\* custom_settings['RETRY_TIMES'] of the spider, which handle_error reads.
RETRY_TIMES(p) == IF p = "pdd" THEN 5 ELSE 6

\* parse_search: the elapsed time above which the proxy is changed.
TimeoutCeiling(p) == IF p = "taobao" THEN 20 ELSE 15

\* _get_headers: every how many calls the session id is regenerated.
SessionPeriod(p) == IF p = "jd" THEN 5 ELSE IF p = "pdd" THEN 8 ELSE 6

\* What a response body can hold of the phrases the spiders look for:
\*   "captcha"  a text with '验证码' (has '验证'): jd, pdd and taobao match;
\*   "security" a text with '安全' only: pdd matches ('安全'), jd ('安全验证')
\*              and taobao ('安全中心') do not;
\*   "denied"   a text with 'denied': jd matches.
Phrases == {"none", "captcha", "security", "denied"}

\* The phrase tests: _detect_anti_crawler of jd, the `in response.text`
\* tests of parse_search of pdd and taobao.
HasIndicator(p, phrase) ==
    IF p = "jd" THEN phrase \in {"captcha", "denied"}
    ELSE IF p = "pdd" THEN phrase \in {"captcha", "security"}
    ELSE phrase \in {"captcha"}

\* JDSpider._detect_anti_crawler, lines 592-615.
BlockStatuses == {403, 429, 503}
detect_anti_crawler(resp) ==
    HasIndicator("jd", resp.phrase) \/ resp.status \in BlockStatuses

\* A request as the handlers see it: the fields of request.meta they read.
\* retry_times is the key Scrapy's RetryMiddleware counts in as well, so a
\* request can reach a callback with any count up to RETRY_TIMES.
RetryCounts(p) == {0, RETRY_TIMES(p) - 1, RETRY_TIMES(p)}
Requests(p) ==
    [task_type : {"search", "comment"}, page : 1..MaxPage,
     retry_times : RetryCounts(p), proxy : {None} \cup Addr]

\* What comes back for a request.  A failure (errback) has a status, or
\* NoResponse for a network-level failure.  A response (callback) has its
\* elapsed time in seconds (at the platform's ceiling or just above it),
\* status, indicator phrase and the kind of body:
\*   "data"      the extraction finds its data;
\*   "no_data"   no product script / no product in the page, or its JSON
\*               does not parse (search pages: _handle_parse_failure is
\*               called for both);
\*   "bad_json"  the JSON of a comment page does not parse;
\*   "empty"     the JSON parses and lists no product;
\*   "raises"    the extraction raises some other exception.
\* A comment page is JSON: the phrases of a search page are not looked for.
NoResponse == 0
FailureStatuses == {NoResponse, 401, 403, 429, 500, 404}
Failures == [status : FailureStatuses]
Elapsed(p) == {TimeoutCeiling(p), TimeoutCeiling(p) + 1}
Bodies(task_type) ==
    IF task_type = "search" THEN {"data", "no_data", "empty", "raises"}
    ELSE {"data", "bad_json", "raises"}
Responses(p, task_type) ==
    [elapsed : Elapsed(p), status : {200, 429},
     phrase : IF task_type = "search" THEN Phrases ELSE {"none"},
     body : Bodies(task_type)]

\* SpiderMonitor.__init__, monitor.py lines 18-29: the counters of self.stats
\* (item_stats is left out; 'nodes' is the variable nodes).
NoStats ==
    [total_requests |-> 0, success_requests |-> 0, failed_requests |-> 0,
     spider_stats |-> [p \in Platforms |-> [requests |-> 0, success |-> 0, fail |-> 0]]]

\* update_request_stats(self, success=True, spider_name=None): the default of
\* spider_name, None, as a name that no platform has.
NoName == "None"

\* SpiderMonitor.__init__: no worker in self.stats['nodes'].
NoNodes == [w \in {} |-> 0]

\* AntiCrawler.__init__, anti_crawler.py lines 19-23.
EmptyPool == [cookies_pool |-> <<>>, current_idx |-> 0, expire_time |-> 0]
InitialStore == [kind |-> "store", of |-> [p \in Platforms |-> EmptyPool]]

\* cookie_store.pkl (line 24): kind says what the file holds, 'of' is the
\* pickled store where kind = "saved". No file has been written yet.
NoFile == [kind |-> "absent", of |-> InitialStore.of]

\* No call on the cookie store yet.
NoCookieCall == [op |-> "none", ended |-> "none"]

\* A monitor that is left alone.
MonitorIdle ==
    /\ now = 0
    /\ nodes = NoNodes
    /\ alerts = <<>>
    /\ monitor_thread = "started"
    /\ ticks = <<>>
    /\ registrations = {}
    /\ store_up = TRUE

\* A user agent, as far as the code looks at it: where it comes from ("file" or
\* "default"), its place in that list, and whether it holds one of 'Mobile',
\* 'Android', 'iPhone', 'iPad'.
UA(from, no, mobile) == [from |-> from, no |-> no, mobile |-> mobile]

\* The lists in the code.  anti_crawler.py lines 40-43: Chrome on Windows and
\* Safari on a Mac.  middlewares.py lines 47-52: Chrome on Windows and Safari
\* on an iPhone.
AntiCrawlerDefaults == <<UA("default", 1, FALSE), UA("default", 2, FALSE)>>
MiddlewareDefaults == <<UA("default", 1, FALSE), UA("default", 2, TRUE)>>

\* The file at USER_AGENTS_PATH: whether open() succeeds, and the non-blank
\* lines it holds.
Unavailable == [opens |-> FALSE, lines |-> <<>>]
NoAgentCall == [op |-> "none", ended |-> "none"]

\* User agents that are left alone: no file, the defaults loaded.
AgentsIdle ==
    /\ ua_file = Unavailable
    /\ ua_source = Unavailable
    /\ ua_list = AntiCrawlerDefaults
    /\ mw_agents = [user_agents |-> MiddlewareDefaults,
                    mobile_user_agents |-> <<MiddlewareDefaults[2]>>,
                    desktop_user_agents |-> <<MiddlewareDefaults[1]>>]
    /\ ua_call = NoAgentCall

\* The roles a spider is started in (jd line 55: the argument `role`).
Roles == {"master", "worker"}

\* settings SPIDERS[<name>]['start_urls'] is empty or missing (jd line 177);
\* otherwise 'keywords' is what lines 180-185 extract from the URLs.
NoStartUrls == [configured |-> FALSE, keywords |-> <<>>]

\* No request has been dequeued yet.
NoPop == [task_type |-> "none"]

\* No spider has started: nothing configured, nothing queued.
FrontierIdle ==
    /\ started = [r \in Roles |-> FALSE]
    /\ seed_config = NoStartUrls
    /\ seed_todo = <<>>
    /\ seeds = <<>>
    /\ frontier = <<>>
    /\ popped = NoPop
    /\ handledLeft = 0

\* An AntiCrawler that is left alone.
CookieIdle ==
    /\ cookie_file = NoFile
    /\ cookie_store = InitialStore
    /\ cookie_call = NoCookieCall
    /\ cookieCallsLeft = 0

\* No handler has run yet.
NoCall ==
    [handler |-> "none", req |-> None, resp |-> None, ended |-> "none",
     extracted |-> FALSE, yielded |-> <<>>, before |-> None]

\* The spider and the backoff arithmetic while only a proxy pool is looked at.
OutsidePoolIdle ==
    /\ platform = "jd"
    /\ session_id = 0
    /\ device_id = 0
    /\ proxy = None
    /\ task_counter = 0
    /\ stats = NoStats
    /\ queue = <<>>
    /\ last = NoCall
    /\ eventsLeft = 0
    /\ backoff = None
    /\ MonitorIdle
    /\ CookieIdle
    /\ AgentsIdle
    /\ FrontierIdle

\* A proxy pool that is left alone: no source file, no thread at work.
PoolIdle ==
    /\ file = <<>>
    /\ working_proxies = <<>>
    /\ lock = Free
    /\ pc = [t \in Threads |-> IF t = Main THEN "ready" ELSE "loop"]
    /\ toCheck = [t \in Threads |-> <<>>]
    /\ is_working = [t \in Threads |-> FALSE]
    /\ depth = [t \in Threads |-> 0]
    /\ loadIdx = [t \in Threads |-> 0]
    /\ arg = None
    /\ got = None
    /\ opsLeft = 0
    /\ passesLeft = 0
    /\ probeFailsLeft = 0
    /\ evicted = {}

\* ----------------------------------------------------- candidate records
\* _load_proxies_from_file, lines 44-50: the record appended for one line.
NewCandidate(a) ==
    [proxy |-> a, score |-> InitialScore, last_used |-> FALSE,
     fail_count |-> 0, success_count |-> 0]

\* Index of the first candidate with address a (the `for p ... if p['proxy']
\* == proxy ... break` loops), 0 when there is none.
FirstIdx(wp, a) ==
    IF \E i \in 1..Len(wp) : wp[i].proxy = a
    THEN CHOOSE i \in 1..Len(wp) :
            wp[i].proxy = a /\ \A j \in 1..(i - 1) : wp[j].proxy # a
    ELSE 0

\* list.remove(p) for the candidate found at index i.
RemoveAt(wp, i) == SubSeq(wp, 1, i - 1) \o SubSeq(wp, i + 1, Len(wp))

\* _check_all_proxies, lines 82-84: a successful probe.
ProbeSuccess(p) ==
    [p EXCEPT !.score = Min(p.score + ProbeReward, MaxScore),
              !.success_count = @ + 1,
              !.fail_count = 0]

\* Variant of ProbeFailure with the penalty of report_failure.
ProbeFailureBy15(p) ==
    [p EXCEPT !.score = @ - ReportPenalty, !.fail_count = @ + 1]

\* _check_all_proxies, lines 88-89: a failed probe.
ProbeFailure(p) ==
    [p EXCEPT !.score = @ - ProbePenalty, !.fail_count = @ + 1]

\* Variant of ProbeEvicts that keeps a candidate whose score is exactly 0.
ProbeEvictsBelowZero(p) == p.score < 0

\* _check_all_proxies, line 93: eviction test after a failed probe.
ProbeEvicts(p) == p.score <= 0

\* _check_all_proxies, lines 76-96: the locked block applying one probe result.
ApplyProbe(wp, a, ok) ==
    LET i == FirstIdx(wp, a) IN
    IF i = 0 THEN wp
    ELSE IF ok THEN [wp EXCEPT ![i] = ProbeSuccess(wp[i])]
    ELSE LET q == ProbeFailure(wp[i]) IN
         IF ProbeEvicts(q) THEN RemoveAt(wp, i) ELSE [wp EXCEPT ![i] = q]

\* Variant of ReportFailureDelta without the max(..., 0) of line 163.
ReportFailureDeltaNoFloor(p) ==
    [p EXCEPT !.fail_count = @ + 1, !.score = @ - ReportPenalty]

\* report_failure, lines 162-163.
ReportFailureDelta(p) ==
    [p EXCEPT !.fail_count = @ + 1, !.score = Max(@ - ReportPenalty, 0)]

\* report_failure, line 167.
ReportFailureEvicts(p) == p.fail_count > FailCeiling

\* report_failure, lines 159-170.
report_failure(wp, a) ==
    LET i == FirstIdx(wp, a) IN
    IF i = 0 THEN wp
    ELSE LET q == ReportFailureDelta(wp[i]) IN
         IF ReportFailureEvicts(q) THEN RemoveAt(wp, i) ELSE [wp EXCEPT ![i] = q]

\* Variant of ReportSuccessDelta with the reward of a successful probe.
ReportSuccessDeltaBy10(p) ==
    [p EXCEPT !.success_count = @ + 1, !.score = Min(@ + ProbeReward, MaxScore)]

\* report_success, lines 180-181.
ReportSuccessDelta(p) ==
    [p EXCEPT !.success_count = @ + 1, !.score = Min(@ + ReportReward, MaxScore)]

\* report_success, lines 177-183.
report_success(wp, a) ==
    LET i == FirstIdx(wp, a) IN
    IF i = 0 THEN wp ELSE [wp EXCEPT ![i] = ReportSuccessDelta(wp[i])]

\* sum(p['score'] for p in working_proxies[:i])
RECURSIVE Cum(_, _)
Cum(wp, i) == IF i = 0 THEN 0 ELSE Cum(wp, i - 1) + wp[i].score

total_score(wp) == Cum(wp, Len(wp))

\* A variant that takes the candidates in turn, whatever their scores.
PickIdxByTurn(wp, rand) == (rand % Len(wp)) + 1

\* get_working_proxy, lines 145-150: the candidate the loop stops at for rand.
PickIdx(wp, rand) ==
    CHOOSE i \in 1..Len(wp) :
        Cum(wp, i) >= rand /\ \A j \in 1..(i - 1) : Cum(wp, j) < rand

\* Values of random.uniform(0, total_score) that matter: the loop's outcome
\* depends only on which interval (Cum(i-1), Cum(i)] holds rand, and rand = 0
\* stops at the first candidate; the right ends of the intervals and 0 cover
\* every outcome.
RandPoints(wp) == {0} \cup {Cum(wp, i) : i \in 1..Len(wp)}

\* Variant of get_working_proxy without the test of lines 134-136: on an
\* empty list random.choice raises, so the call has no outcome.
get_working_proxy_unguarded(wp) ==
    IF total_score(wp) <= 0
    THEN {[proxy |-> wp[i].proxy, wp |-> wp] : i \in 1..Len(wp)}
    ELSE {[proxy |-> wp[PickIdx(wp, rand)].proxy,
           wp |-> [wp EXCEPT ![PickIdx(wp, rand)].last_used = TRUE]] :
             rand \in RandPoints(wp)}

\* Variant of get_working_proxy that counts the selection as a success.
get_working_proxy_rewarding(wp) ==
    IF wp = <<>> THEN {[proxy |-> None, wp |-> wp]}
    ELSE IF total_score(wp) <= 0
    THEN {[proxy |-> wp[i].proxy, wp |-> wp] : i \in 1..Len(wp)}
    ELSE {[proxy |-> wp[PickIdx(wp, rand)].proxy,
           wp |-> [wp EXCEPT ![PickIdx(wp, rand)].last_used = TRUE,
                             ![PickIdx(wp, rand)].score = Min(@ + ReportReward, MaxScore)]] :
             rand \in RandPoints(wp)}

\* get_working_proxy, lines 134-150: the possible outcomes [proxy, wp] of a
\* call on the list wp: the returned address and the list afterwards.
get_working_proxy(wp) ==
    IF wp = <<>> THEN {[proxy |-> None, wp |-> wp]}
    ELSE IF total_score(wp) <= 0
    THEN {[proxy |-> wp[i].proxy, wp |-> wp] : i \in 1..Len(wp)}
    ELSE {[proxy |-> wp[PickIdx(wp, rand)].proxy,
           wp |-> [wp EXCEPT ![PickIdx(wp, rand)].last_used = TRUE]] :
             rand \in RandPoints(wp)}

\* ------------------------------------------------------------------- Init
Files == {[i \in 1..n |-> i] : n \in 0..MaxFile}

Init ==
    /\ file \in Files
    /\ working_proxies = <<>>
    /\ lock = Free
    /\ pc = [t \in Threads |-> IF t = Main THEN "load" ELSE "unstarted"]
    /\ toCheck = [t \in Threads |-> <<>>]
    /\ is_working = [t \in Threads |-> FALSE]
    /\ depth = [t \in Threads |-> 0]
    /\ loadIdx = [t \in Threads |-> 0]
    /\ arg = None
    /\ got = None
    /\ opsLeft = MaxOps
    /\ passesLeft = MaxPasses
    /\ probeFailsLeft = MaxProbeFails
    /\ evicted = {}
    /\ OutsidePoolIdle

checkVars == <<toCheck, is_working, depth, loadIdx>>
budgetVars == <<passesLeft, probeFailsLeft>>
apiVars == <<arg, got, opsLeft, evicted>>

\* ------------------------------------------------------------ constructor
\* __init__, line 28: the first _load_proxies_from_file; no other thread
\* exists yet, so the whole load is one step.
InitialLoad ==
    /\ pc[Main] = "load"
    /\ working_proxies' = [i \in 1..Len(file) |-> NewCandidate(file[i])]
    /\ pc' = [pc EXCEPT ![Main] = "start_thread"]
    /\ UNCHANGED <<file, lock, checkVars, apiVars, budgetVars>>
    /\ UNCHANGED outsidePool

\* __init__, lines 30-32: _start_check_thread, then the eager validation.
StartCheckThread ==
    /\ pc[Main] = "start_thread"
    /\ pc' = [pc EXCEPT ![Main] = "check_start", ![Checker] = "loop"]
    /\ UNCHANGED <<file, working_proxies, lock, checkVars, apiVars, budgetVars>>
    /\ UNCHANGED outsidePool

\* check_loop, lines 58-60: one more iteration of the daemon's loop.
CheckLoop ==
    /\ pc[Checker] = "loop"
    /\ passesLeft > 0
    /\ passesLeft' = passesLeft - 1
    /\ pc' = [pc EXCEPT ![Checker] = "check_start"]
    /\ UNCHANGED <<file, working_proxies, lock, checkVars, apiVars, probeFailsLeft>>
    /\ UNCHANGED outsidePool

\* ----------------------------------------------------- _check_all_proxies
\* line 68: enter `with self.lock`.
AcquireCopy(t) ==
    /\ pc[t] = "check_start"
    /\ lock = Free
    /\ lock' = t
    /\ pc' = [pc EXCEPT ![t] = "copy"]
    /\ UNCHANGED <<file, working_proxies, checkVars, apiVars, budgetVars>>
    /\ UNCHANGED outsidePool

\* line 69 and the end of the block: proxies_to_check = working_proxies.copy().
\* Only p['proxy'] of the copied entries is read afterwards (line 73).
Copy(t) ==
    /\ pc[t] = "copy"
    /\ lock = t
    /\ toCheck' = [toCheck EXCEPT ![t] =
                      [i \in 1..Len(working_proxies) |-> working_proxies[i].proxy]]
    /\ lock' = Free
    /\ pc' = [pc EXCEPT ![t] = IF working_proxies = <<>> THEN "len_check" ELSE "probe"]
    /\ UNCHANGED <<file, working_proxies, is_working, depth, loadIdx, apiVars,
                   budgetVars>>
    /\ UNCHANGED outsidePool

\* lines 73-76: _check_proxy returns (True or False, decided by the network),
\* then the thread enters `with self.lock`.
CheckProxy(t, ok) ==
    /\ pc[t] = "probe"
    /\ lock = Free
    /\ ok \/ probeFailsLeft > 0
    /\ probeFailsLeft' = IF ok THEN probeFailsLeft ELSE probeFailsLeft - 1
    /\ is_working' = [is_working EXCEPT ![t] = ok]
    /\ lock' = t
    /\ pc' = [pc EXCEPT ![t] = "apply"]
    /\ UNCHANGED <<file, working_proxies, toCheck, depth, loadIdx, apiVars,
                   passesLeft>>
    /\ UNCHANGED outsidePool

\* lines 77-96: apply the probe result to the first candidate with the address.
Apply(t) ==
    /\ pc[t] = "apply"
    /\ lock = t
    /\ working_proxies' = ApplyProbe(working_proxies, Head(toCheck[t]), is_working[t])
    /\ toCheck' = [toCheck EXCEPT ![t] = Tail(@)]
    /\ lock' = Free
    /\ pc' = [pc EXCEPT ![t] = IF Tail(toCheck[t]) = <<>> THEN "len_check" ELSE "probe"]
    /\ is_working' = [is_working EXCEPT ![t] = FALSE]
    /\ evicted' = IF Len(working_proxies') < Len(working_proxies)
                  THEN evicted \cup {<<Head(toCheck[t]), "score">>} ELSE evicted
    /\ UNCHANGED <<file, depth, loadIdx, arg, got, opsLeft, budgetVars>>
    /\ UNCHANGED outsidePool

\* Variant of BelowMinimum with the threshold off by one.
BelowMinimumStrict(wp) == Len(wp) < min_working_proxies - 1

\* line 99: the test that decides on a reload.
BelowMinimum(wp) == Len(wp) < min_working_proxies

\* The statement after a returning _check_all_proxies call.
AfterCheck(t) == IF t = Main THEN "ready" ELSE "loop"

\* line 99: len(self.working_proxies) < self.min_working_proxies, read
\* without the lock.  Below the threshold the reload starts (lines 100-101);
\* otherwise the outermost call and all the nested ones return.
LenCheck(t) ==
    /\ pc[t] = "len_check"
    /\ IF BelowMinimum(working_proxies)
       THEN /\ pc' = [pc EXCEPT ![t] = "reload"]
            /\ loadIdx' = [loadIdx EXCEPT ![t] = 1]
            /\ depth' = depth
       ELSE /\ pc' = [pc EXCEPT ![t] = AfterCheck(t)]
            /\ loadIdx' = loadIdx
            /\ depth' = [depth EXCEPT ![t] = 0]
    /\ UNCHANGED <<file, working_proxies, lock, toCheck, is_working, apiVars,
                   budgetVars>>
    /\ UNCHANGED outsidePool

\* _load_proxies_from_file called from line 101: one append (line 44) per
\* line of the file, without the lock.
ReloadAppend(t) ==
    /\ pc[t] = "reload"
    /\ loadIdx[t] <= Len(file)
    /\ working_proxies' = Append(working_proxies, NewCandidate(file[loadIdx[t]]))
    /\ loadIdx' = [loadIdx EXCEPT ![t] = @ + 1]
    /\ UNCHANGED <<file, lock, pc, toCheck, is_working, depth, apiVars, budgetVars>>
    /\ UNCHANGED outsidePool

\* line 103: the nested self._check_all_proxies() call.  When the nesting
\* exceeds the interpreter's limit the call raises RecursionError, which no
\* frame catches: __init__ raises in the main thread, the daemon thread dies.
Recurse(t) ==
    /\ pc[t] = "reload"
    /\ loadIdx[t] > Len(file)
    /\ IF depth[t] + 1 >= RecursionLimit
       THEN /\ pc' = [pc EXCEPT ![t] = "RecursionError"]
            /\ depth' = depth
       ELSE /\ pc' = [pc EXCEPT ![t] = "check_start"]
            /\ depth' = [depth EXCEPT ![t] = @ + 1]
    /\ loadIdx' = [loadIdx EXCEPT ![t] = 0]
    /\ UNCHANGED <<file, working_proxies, lock, toCheck, is_working, apiVars,
                   budgetVars>>
    /\ UNCHANGED outsidePool

\* ---------------------------------------------------------- API, main thread
\* get_working_proxy, line 133: enter `with self.lock`.
GetAcquire ==
    /\ pc[Main] = "ready"
    /\ opsLeft > 0
    /\ lock = Free
    /\ lock' = Main
    /\ opsLeft' = opsLeft - 1
    /\ pc' = [pc EXCEPT ![Main] = "get"]
    /\ UNCHANGED <<file, working_proxies, checkVars, arg, got, evicted,
                   budgetVars>>
    /\ UNCHANGED outsidePool

\* get_working_proxy, lines 134-150: the body of the locked block.
GetBody ==
    /\ pc[Main] = "get"
    /\ \E o \in get_working_proxy(working_proxies) :
          /\ got' = o.proxy
          /\ working_proxies' = o.wp
    /\ lock' = Free
    /\ pc' = [pc EXCEPT ![Main] = "ready"]
    /\ UNCHANGED <<file, checkVars, arg, opsLeft, evicted, budgetVars>>
    /\ UNCHANGED outsidePool

\* report_failure / report_success, lines 156-157 and 174-175: a falsy proxy.
ReportNone(op) ==
    /\ pc[Main] = "ready"
    /\ opsLeft > 0
    /\ opsLeft' = opsLeft - 1
    /\ UNCHANGED <<file, working_proxies, lock, pc, checkVars, arg, got,
                   evicted, budgetVars>>
    /\ UNCHANGED outsidePool

\* report_failure(a) / report_success(a), lines 159 and 177: enter the lock.
ReportAcquire(op, a) ==
    /\ pc[Main] = "ready"
    /\ opsLeft > 0
    /\ lock = Free
    /\ lock' = Main
    /\ opsLeft' = opsLeft - 1
    /\ arg' = a
    /\ pc' = [pc EXCEPT ![Main] = op]
    /\ UNCHANGED <<file, working_proxies, checkVars, got, evicted,
                   budgetVars>>
    /\ UNCHANGED outsidePool

\* report_failure, lines 160-170.
ReportFailure ==
    /\ pc[Main] = "report_failure"
    /\ working_proxies' = report_failure(working_proxies, arg)
    /\ evicted' = IF Len(working_proxies') < Len(working_proxies)
                  THEN evicted \cup {<<arg, "fail_count">>} ELSE evicted
    /\ lock' = Free
    /\ pc' = [pc EXCEPT ![Main] = "ready"]
    /\ arg' = None
    /\ UNCHANGED <<file, checkVars, got, opsLeft, budgetVars>>
    /\ UNCHANGED outsidePool

\* report_success, lines 178-183.
ReportSuccess ==
    /\ pc[Main] = "report_success"
    /\ working_proxies' = report_success(working_proxies, arg)
    /\ lock' = Free
    /\ pc' = [pc EXCEPT ![Main] = "ready"]
    /\ arg' = None
    /\ UNCHANGED <<file, checkVars, got, opsLeft, evicted, budgetVars>>
    /\ UNCHANGED outsidePool

\* ------------------------------------------------------------------- Next
Next ==
    \/ InitialLoad
    \/ StartCheckThread
    \/ CheckLoop
    \/ \E t \in Threads : AcquireCopy(t)
    \/ \E t \in Threads : Copy(t)
    \/ \E t \in Threads : \E ok \in BOOLEAN : CheckProxy(t, ok)
    \/ \E t \in Threads : Apply(t)
    \/ \E t \in Threads : LenCheck(t)
    \/ \E t \in Threads : ReloadAppend(t)
    \/ \E t \in Threads : Recurse(t)
    \/ GetAcquire
    \/ GetBody
    \/ \E op \in {"report_failure", "report_success"} : ReportNone(op)
    \/ \E op \in {"report_failure", "report_success"} : \E a \in Addr : ReportAcquire(op, a)
    \/ ReportFailure
    \/ ReportSuccess

Spec == Init /\ [][Next]_vars

\* ------------------------------------------------- a constructed pool onwards
\* _load_proxies_from_file, lines 37-50: the candidates one load appends.
Load(f) == [i \in 1..Len(f) |-> NewCandidate(f[i])]

\* _check_all_proxies, lines 72-96, run by one thread alone with every probe
\* succeeding: the list after the loop over the snapshot.
RECURSIVE PassOk(_, _)
PassOk(wp, snapshot) ==
    IF snapshot = <<>> THEN wp
    ELSE PassOk(ApplyProbe(wp, Head(snapshot), TRUE), Tail(snapshot))

\* _check_all_proxies, lines 66-103, likewise: the pass, and below the
\* threshold the reload and the nested call.
RECURSIVE CheckAllOk(_, _)
CheckAllOk(wp, f) ==
    LET w == PassOk(wp, [i \in 1..Len(wp) |-> wp[i].proxy]) IN
    IF Len(w) < min_working_proxies THEN CheckAllOk(w \o Load(f), f) ELSE w

\* __init__, lines 28-32, for a non-empty file whose proxies all answer the
\* probes, the daemon thread not having run yet.
Constructed(f) == CheckAllOk(Load(f), f)

\* The pool right after such a construction: the main thread is about to
\* make API calls, the daemon thread is at the top of check_loop.
RunInit ==
    /\ file \in Files \ {<<>>}
    /\ working_proxies = Constructed(file)
    /\ lock = Free
    /\ pc = [t \in Threads |-> IF t = Main THEN "ready" ELSE "loop"]
    /\ toCheck = [t \in Threads |-> <<>>]
    /\ is_working = [t \in Threads |-> FALSE]
    /\ depth = [t \in Threads |-> 0]
    /\ loadIdx = [t \in Threads |-> 0]
    /\ arg = None
    /\ got = None
    /\ opsLeft = RunOps
    /\ passesLeft = RunPasses
    /\ probeFailsLeft = RunProbeFails
    /\ evicted = {}
    /\ OutsidePoolIdle

RunNext ==
    \/ CheckLoop
    \/ \E t \in Threads : AcquireCopy(t)
    \/ \E t \in Threads : Copy(t)
    \/ \E t \in Threads : \E ok \in BOOLEAN : CheckProxy(t, ok)
    \/ \E t \in Threads : Apply(t)
    \/ \E t \in Threads : LenCheck(t)
    \/ \E t \in Threads : ReloadAppend(t)
    \/ \E t \in Threads : Recurse(t)
    \/ GetAcquire
    \/ GetBody
    \/ \E op \in {"report_failure", "report_success"} : ReportNone(op)
    \/ \E op \in {"report_failure", "report_success"} : \E a \in Addr : ReportAcquire(op, a)
    \/ ReportFailure
    \/ ReportSuccess

RunSpec == RunInit /\ [][RunNext]_vars

\* The same for a one-line file and a main thread whose requests through
\* the proxy all fail: it only calls get_working_proxy and report_failure,
\* often enough to empty the active set, while the daemon's probes succeed.
DrainInit ==
    /\ file = <<1>>
    /\ working_proxies = Constructed(file)
    /\ lock = Free
    /\ pc = [t \in Threads |-> IF t = Main THEN "ready" ELSE "loop"]
    /\ toCheck = [t \in Threads |-> <<>>]
    /\ is_working = [t \in Threads |-> FALSE]
    /\ depth = [t \in Threads |-> 0]
    /\ loadIdx = [t \in Threads |-> 0]
    /\ arg = None
    /\ got = None
    /\ opsLeft = DrainOps
    /\ passesLeft = DrainPasses
    /\ probeFailsLeft = 0
    /\ evicted = {}
    /\ OutsidePoolIdle

DrainNext ==
    \/ CheckLoop
    \/ \E t \in Threads : AcquireCopy(t)
    \/ \E t \in Threads : Copy(t)
    \/ \E t \in Threads : CheckProxy(t, TRUE)
    \/ \E t \in Threads : Apply(t)
    \/ \E t \in Threads : LenCheck(t)
    \/ \E t \in Threads : ReloadAppend(t)
    \/ \E t \in Threads : Recurse(t)
    \/ GetAcquire
    \/ GetBody
    \/ \E a \in Addr : ReportAcquire("report_failure", a)
    \/ ReportFailure

DrainSpec == DrainInit /\ [][DrainNext]_vars

\* ------------------------------------------------------ the retry delays
\* The delay each retry path computes before it re-enqueues, as the record
\* [det, jlo, jhi] in units of 1/64 s: the part that depends on no random
\* draw, and the range of the random term (random.random() is [0, 1),
\* random.uniform(a, b) is [a, b]).  1/64 s keeps 1.5 ** r exact for r <= 6.
RECURSIVE Pow(_, _)
Pow(b, n) == IF n = 0 THEN 1 ELSE b * Pow(b, n - 1)

\* 64 * 2 ** r and 64 * 1.5 ** r.
\* Variant of TwoTo with the exponent negated: 2 ** -r.
TwoToNegative(r) == 64 \div Pow(2, r)

TwoTo(r) == 64 * Pow(2, r)
OneAndHalfTo(r) == Pow(3, r) * Pow(2, 6 - r)

Delay(det, lo, hi) == [det |-> det, jlo |-> lo, jhi |-> hi]

\* A path that re-enqueues without waiting.
NoDelay == Delay(0, 0, 0)

\* The retry paths of a spider:
\*   "error_auth"      handle_error, status 401/403/429 (pdd: 403/429);
\*   "error_server"    handle_error, status 500/502/503/408 (jd only);
\*   "error_other"     handle_error, any other status (jd only);
\*   "error_network"   handle_error, no response;
\*   "parse_exception" the except block of parse_search;
\*   "parse_failure"   _handle_parse_failure;
\*   "anti_crawler"    _handle_anti_crawler (jd only);
\*   "comment"         parse_comments on a JSON error (pdd only).
Paths(p) ==
    {"error_auth", "error_network", "parse_exception", "parse_failure"}
    \cup (IF p = "jd" THEN {"error_server", "error_other", "anti_crawler"}
          ELSE IF p = "pdd" THEN {"comment"} ELSE {})

\* jd_spider.py lines 1261, 1265, 1269, 1272, 584, 654.
JdDelay(path, r) ==
    CASE path = "error_auth" -> Delay(2 * TwoTo(r), 64, 192)
      [] path = "error_server" -> Delay(OneAndHalfTo(r), 0, 64)
      [] path = "error_other" -> Delay(0, 64, 128)
      [] path = "error_network" -> Delay(OneAndHalfTo(r), 32, 96)
      [] path = "parse_exception" -> Delay(OneAndHalfTo(r), 0, 64)
      [] path = "anti_crawler" -> Delay(3 * TwoTo(r), 128, 320)
      [] OTHER -> NoDelay

\* Variant of PddDelay whose comment-page retry waits 2 ** page with no
\* random part.
PddDelayNoJitter(path, r, page) ==
    CASE path = "error_auth" -> Delay(TwoTo(r), 64, 192)
      [] path = "parse_exception" -> Delay(TwoTo(r), 0, 64)
      [] path = "comment" -> Delay(TwoTo(page), 0, 0)
      [] OTHER -> NoDelay

\* pdd_spider.py lines 872, 450, 700; lines 886-892 and 475 do not wait.
PddDelay(path, r, page) ==
    CASE path = "error_auth" -> Delay(TwoTo(r), 64, 192)
      [] path = "parse_exception" -> Delay(TwoTo(r), 0, 64)
      [] path = "comment" -> Delay(TwoTo(page), 0, 64)
      [] OTHER -> NoDelay

\* taobao_spider.py lines 741, 416; lines 753-758 and 440 do not wait.
TaobaoDelay(path, r) ==
    CASE path = "error_auth" -> Delay(TwoTo(r), 64, 256)
      [] path = "parse_exception" -> Delay(TwoTo(r), 0, 64)
      [] OTHER -> NoDelay

Backoff(p, path, r, page) ==
    IF p = "jd" THEN JdDelay(path, r)
    ELSE IF p = "pdd" THEN PddDelay(path, r, page)
    ELSE TaobaoDelay(path, r)

\* The retry count below which the path retries (`if retry_times < ...`).
RetryLimit(p, path) ==
    CASE path = "parse_exception" -> (IF p = "taobao" THEN 4 ELSE 3)
      [] path = "parse_failure" ->
            (IF p = "jd" THEN 2 ELSE IF p = "pdd" THEN 3 ELSE 4)
      [] path = "anti_crawler" -> 2
      [] OTHER -> RETRY_TIMES(p)

\* ------------------------------------------------------------ the spiders
\* One spider of the platform `platform`, with the proxy pool it constructed
\* (self.proxy_pool: working_proxies above; its daemon thread is left out
\* here) and its monitor.  The callbacks and the errback run in the one
\* reactor thread, so a handler call is one step.  A request comes from
\* upstream (any request of Requests) or from `queue`, where the handlers'
\* own re-enqueued requests wait; what comes back for it is the engine's
\* choice.  Logging and self.error_history are left out.

\* proxy_pool.report_failure(px) as the spiders call it: px may be None.
PoolReportFailure(wp, px) == IF px = None THEN wp ELSE report_failure(wp, px)

\* self.proxy = self.proxy_pool.get_working_proxy(), after the pool took the
\* report on px when `report` holds: the outcomes [proxy, wp].
Reselect(wp, px, report) ==
    get_working_proxy(IF report THEN PoolReportFailure(wp, px) ELSE wp)

\* Variant of SlowCheck that reports the proxy of a slow response and keeps
\* self.proxy as it is.
SlowCheckKeepsProxy(p, wp, cur, req, resp) ==
    IF resp.elapsed > TimeoutCeiling(p)
    THEN {[proxy |-> cur, wp |-> PoolReportFailure(wp, req.proxy)]}
    ELSE {[proxy |-> cur, wp |-> wp]}

\* parse_search / parse_comments, first lines: a response slower than the
\* platform's ceiling reports the proxy of the request and selects another
\* for self.proxy.  The outcomes [proxy, wp].
SlowCheck(p, wp, cur, req, resp) ==
    IF resp.elapsed > TimeoutCeiling(p)
    THEN Reselect(wp, req.proxy, TRUE)
    ELSE {[proxy |-> cur, wp |-> wp]}

\* SpiderMonitor.update_request_stats, monitor.py lines 52-66.  The spiders
\* call it with success= only: spider_name is NoName.
update_request_stats(st, success, spider_name) ==
    LET g == [st EXCEPT !.total_requests = @ + 1,
                        !.success_requests = IF success THEN @ + 1 ELSE @,
                        !.failed_requests = IF success THEN @ ELSE @ + 1]
    IN  IF spider_name \in Platforms
        THEN [g EXCEPT !.spider_stats[spider_name] =
                [requests |-> @.requests + 1,
                 success |-> IF success THEN @.success + 1 ELSE @.success,
                 fail |-> IF success THEN @.fail ELSE @.fail + 1]]
        ELSE g

\* The spider's fields a handler can change, as they are before its call.
Snapshot ==
    [session_id |-> session_id, device_id |-> device_id, proxy |-> proxy,
     stats |-> stats]

\* The requests that can be delivered: the head of queue, or one from
\* upstream (the first MaxFresh deliveries).
Delivered(fq) ==
    IF fq THEN (IF queue = <<>> THEN {} ELSE {Head(queue).req})
    ELSE IF eventsLeft > MaxEvents - MaxFresh THEN Requests(platform)
    ELSE {}

\* The end of a handler call: the history, and the requests it yielded
\* handed to the scheduler.
Finish(handler, req, resp, fq, ended, extracted, yielded) ==
    /\ last' = [handler |-> handler, req |-> req, resp |-> resp,
                ended |-> ended, extracted |-> extracted,
                yielded |-> yielded, before |-> Snapshot]
    /\ queue' = (IF fq THEN Tail(queue) ELSE queue) \o yielded
    /\ eventsLeft' = eventsLeft - 1

poolThreadVars == <<file, lock, pc, toCheck, is_working, depth, loadIdx, arg,
                    got, opsLeft, passesLeft, probeFailsLeft, evicted>>

\* handle_error (jd lines 1225-1232, pdd 842-847, taobao 716-721), the
\* errback of every request.  After update_request_stats the handler calls
\* self.monitor.log_error, a method SpiderMonitor (monitor.py, lines 7-166)
\* does not have: the call raises AttributeError and the handler ends there.
\* The report to the proxy pool and the retry logic below it never run.
handle_error(req, fail, fq) ==
    /\ eventsLeft > 0
    /\ stats' = update_request_stats(stats, FALSE, NoName)
    /\ Finish("handle_error", req, fail, fq, "raised", FALSE, <<>>)
    /\ UNCHANGED <<platform, session_id, device_id, proxy, task_counter>>
    /\ UNCHANGED <<working_proxies, poolThreadVars, outsideSpider>>

\* JDSpider._handle_anti_crawler, lines 617-668: report the request's proxy,
\* select another, regenerate session and device id.  Its retry_request (lines
\* 659-665) is defined and never called: no request is yielded or scheduled.
\* The outcomes, from the state s after the slow check.
handle_anti_crawler(s, req) ==
    {[s EXCEPT !.proxy = o.proxy, !.wp = o.wp,
               !.session_id = @ + 1, !.device_id = @ + 1] :
        o \in Reselect(s.wp, req.proxy, TRUE)}

\* parse_search of pdd (lines 329-337) and taobao (lines 308-315), reached
\* only when the product list is empty: on an indicator phrase report the
\* proxy, select another and regenerate the session id; return either way.
EmptyListCheck(p, s, req, resp) ==
    IF HasIndicator(p, resp.phrase)
    THEN {[s EXCEPT !.proxy = o.proxy, !.wp = o.wp, !.session_id = @ + 1] :
             o \in Reselect(s.wp, req.proxy, TRUE)}
    ELSE {s}

\* The except block of parse_search (jd lines 571-578, pdd 433-436, taobao
\* 402-405): update_request_stats(success=False), then self.monitor.log_error,
\* which raises AttributeError inside the handler: the retry below is not run.
ParseException(s) ==
    {[s EXCEPT !.stats = update_request_stats(@, FALSE, NoName), !.ended = "raised"]}

\* The try block of parse_search.  `self._handle_parse_failure(response, ..)`
\* (jd line 407, pdd 286 and 305, taobao 271 and 285) calls a generator
\* function and drops the generator: nothing of its body runs.
Extraction(p, s, req, resp) ==
    IF resp.body = "data" THEN {[s EXCEPT !.extracted = TRUE]}
    ELSE IF resp.body = "raises" THEN ParseException(s)
    ELSE IF p # "jd" /\ resp.body = "empty" THEN EmptyListCheck(p, s, req, resp)
    ELSE {s}

\* parse_search (jd lines 351-590, pdd 257-456, taobao 243-422): the
\* outcomes [proxy, wp, session_id, device_id, stats, ended, extracted].
\* The items and follow-up requests of a successful extraction are left out.
SearchOutcomes(p, req, resp) ==
    UNION {
        LET s == [proxy |-> c.proxy, wp |-> c.wp, session_id |-> session_id,
                  device_id |-> device_id,
                  stats |-> update_request_stats(stats, TRUE, NoName),
                  ended |-> "returned", extracted |-> FALSE]
        IN  IF p = "jd" /\ detect_anti_crawler(resp)
            THEN handle_anti_crawler(s, req)
            ELSE Extraction(p, s, req, resp)
        : c \in SlowCheck(p, working_proxies, proxy, req, resp)}

parse_search(req, resp, fq) ==
    /\ eventsLeft > 0
    /\ req.task_type = "search"
    /\ \E o \in SearchOutcomes(platform, req, resp) :
          /\ proxy' = o.proxy
          /\ working_proxies' = o.wp
          /\ session_id' = o.session_id
          /\ device_id' = o.device_id
          /\ stats' = o.stats
          /\ Finish("parse_search", req, resp, fq, o.ended, o.extracted, <<>>)
    /\ UNCHANGED <<platform, task_counter, poolThreadVars, outsideSpider>>

\* Variant of get_headers that counts the call before it tests the counter.
get_headers_counts_first(p, sid, did, tc) ==
    IF (tc + 1) % SessionPeriod(p) = 0
    THEN {[session_id |-> sid + 1, device_id |-> did + d, task_counter |-> tc + 1] :
             d \in {0, 1}}
    ELSE {[session_id |-> sid, device_id |-> did, task_counter |-> tc + 1]}

\* _get_headers (pdd lines 192-232): every SessionPeriod-th call regenerates
\* the session id and, by a random draw, the device id; task_counter counts
\* the calls.  The outcomes [session_id, device_id, task_counter].
get_headers(p, sid, did, tc) ==
    IF tc % SessionPeriod(p) = 0 /\ tc > 0
    THEN {[session_id |-> sid + 1, device_id |-> did + d, task_counter |-> tc + 1] :
             d \in {0, 1}}
    ELSE {[session_id |-> sid, device_id |-> did, task_counter |-> tc + 1]}

\* Variant of CommentRetry that starts the count of the new request again.
CommentRetryReset(req) ==
    IF req.page < 3
    THEN <<[req |-> [req EXCEPT !.retry_times = 0],
            delay |-> Backoff("pdd", "comment", req.retry_times, req.page)]>>
    ELSE <<>>

\* PDDSpider.parse_comments, lines 696-711: on a JSON error of a page below
\* 3 sleep 2 ** page + random.random() and yield the request again, with
\* meta=response.meta: page and retry_times as they were.  retry_times is
\* not read.
CommentRetry(req) ==
    IF req.page < 3
    THEN <<[req |-> req, delay |-> Backoff("pdd", "comment", req.retry_times, req.page)]>>
    ELSE <<>>

\* PDDSpider.parse_comments, lines 675-841.  The except block (lines
\* 833-841) counts a failed request and returns.  The comment items and the
\* next-page request of a successful extraction are left out.
parse_comments(req, resp, fq) ==
    /\ eventsLeft > 0
    /\ platform = "pdd"
    /\ req.task_type = "comment"
    /\ \E c \in SlowCheck(platform, working_proxies, proxy, req, resp) :
          /\ proxy' = c.proxy
          /\ working_proxies' = c.wp
          /\ LET st == update_request_stats(stats, TRUE, NoName) IN
             IF resp.body = "bad_json"
             THEN /\ stats' = st
                  /\ IF req.page < 3
                     THEN \E h \in get_headers(platform, session_id, device_id, task_counter) :
                             /\ session_id' = h.session_id
                             /\ device_id' = h.device_id
                             /\ task_counter' = h.task_counter
                     ELSE UNCHANGED <<session_id, device_id, task_counter>>
                  /\ Finish("parse_comments", req, resp, fq, "returned", FALSE,
                            CommentRetry(req))
             ELSE IF resp.body = "raises"
             THEN /\ stats' = update_request_stats(st, FALSE, NoName)
                  /\ UNCHANGED <<session_id, device_id, task_counter>>
                  /\ Finish("parse_comments", req, resp, fq, "returned", FALSE, <<>>)
             ELSE /\ stats' = st
                  /\ UNCHANGED <<session_id, device_id, task_counter>>
                  /\ Finish("parse_comments", req, resp, fq, "returned", TRUE, <<>>)
    /\ UNCHANGED <<platform, poolThreadVars, outsideSpider>>

\* A spider with the fields __init__ sets (the registration of the worker
\* with the monitor is left out) after start_requests, its pool constructed
\* from a two-line proxy file and its daemon thread left waiting.
\* task_counter is
\* any count of earlier _get_headers calls that matters to the session
\* period; self.proxy is None (master) or a pool address (worker).
SpiderInit ==
    /\ file = <<1, 2>>
    /\ working_proxies = Constructed(file)
    /\ lock = Free
    /\ pc = [t \in Threads |-> IF t = Main THEN "ready" ELSE "loop"]
    /\ toCheck = [t \in Threads |-> <<>>]
    /\ is_working = [t \in Threads |-> FALSE]
    /\ depth = [t \in Threads |-> 0]
    /\ loadIdx = [t \in Threads |-> 0]
    /\ arg = None
    /\ got = None
    /\ opsLeft = 0
    /\ passesLeft = 0
    /\ probeFailsLeft = 0
    /\ evicted = {}
    /\ platform \in Platforms
    /\ session_id = 0
    /\ device_id = 0
    /\ proxy \in {None} \cup Addr
    /\ task_counter \in {0, SessionPeriod(platform)}
    /\ stats = NoStats
    /\ queue = <<>>
    /\ last = NoCall
    /\ eventsLeft = MaxEvents
    /\ backoff = None
    /\ MonitorIdle
    /\ CookieIdle
    /\ AgentsIdle
    /\ FrontierIdle

SpiderNext ==
    \/ \E fq \in BOOLEAN : \E req \in Delivered(fq) : \E f \in Failures :
          handle_error(req, f, fq)
    \/ \E fq \in BOOLEAN : \E req \in Delivered(fq) : \E resp \in Responses(platform, "search") :
          parse_search(req, resp, fq)
    \/ \E fq \in BOOLEAN : \E req \in Delivered(fq) : \E resp \in Responses(platform, "comment") :
          parse_comments(req, resp, fq)

SpiderSpec == SpiderInit /\ [][SpiderNext]_vars

\* ------------------------------------------------ the headers, call by call
\* A spider that builds one request after the other: _get_headers is called
\* again and again and no handler rotates the identity in between.
HeadersInit ==
    /\ file = <<>>
    /\ working_proxies = <<>>
    /\ lock = Free
    /\ pc = [t \in Threads |-> IF t = Main THEN "ready" ELSE "loop"]
    /\ toCheck = [t \in Threads |-> <<>>]
    /\ is_working = [t \in Threads |-> FALSE]
    /\ depth = [t \in Threads |-> 0]
    /\ loadIdx = [t \in Threads |-> 0]
    /\ arg = None
    /\ got = None
    /\ opsLeft = 0
    /\ passesLeft = 0
    /\ probeFailsLeft = 0
    /\ evicted = {}
    /\ platform \in Platforms
    /\ session_id = 0
    /\ device_id = 0
    /\ proxy = None
    /\ task_counter = 0
    /\ stats = NoStats
    /\ queue = <<>>
    /\ last = NoCall
    /\ eventsLeft = 0
    /\ backoff = None
    /\ MonitorIdle
    /\ CookieIdle
    /\ AgentsIdle
    /\ FrontierIdle

\* One call of _get_headers (jd lines 290-335, pdd 192-232, taobao 182-222).
GetHeaders ==
    /\ task_counter < MaxCalls
    /\ \E h \in get_headers(platform, session_id, device_id, task_counter) :
          /\ session_id' = h.session_id
          /\ device_id' = h.device_id
          /\ task_counter' = h.task_counter
    /\ UNCHANGED <<platform, proxy, stats, queue, last, eventsLeft>>
    /\ UNCHANGED <<working_proxies, poolThreadVars, outsideSpider>>

HeadersNext == GetHeaders

HeadersSpec == HeadersInit /\ [][HeadersNext]_vars

\* ------------------------------------------------------------- the monitor
\* One SpiderMonitor (utils/monitor.py) with the thread its __init__ starts,
\* the spiders' calls on it, and the time.  monitor.py has `import datetime`
\* (line 2), so `datetime` is the module there and every `datetime.now()`
\* raises AttributeError.  update_worker_status is called by no code of the
\* repository and is left out.
Workers == 1..MaxWorkers

\* self.alert_thresholds, lines 31-35: failure_rate is 0.3 = 3 / 10.
failure_rate_percent == 30
node_timeout == 60
min_working_nodes == 2

\* time.sleep(30) of monitor_loop (line 47) and of the health check of a
\* spider (jd_spider.py line 144).
TickInterval == 30

\* A monitor just constructed (lines 9-37), its thread started and not yet
\* run, with no spider or proxy pool looked at.
MonitorInit ==
    /\ file = <<>>
    /\ working_proxies = <<>>
    /\ lock = Free
    /\ pc = [t \in Threads |-> IF t = Main THEN "ready" ELSE "loop"]
    /\ toCheck = [t \in Threads |-> <<>>]
    /\ is_working = [t \in Threads |-> FALSE]
    /\ depth = [t \in Threads |-> 0]
    /\ loadIdx = [t \in Threads |-> 0]
    /\ arg = None
    /\ got = None
    /\ opsLeft = 0
    /\ passesLeft = 0
    /\ probeFailsLeft = 0
    /\ evicted = {}
    /\ platform = "jd"
    /\ session_id = 0
    /\ device_id = 0
    /\ proxy = None
    /\ task_counter = 0
    /\ stats = NoStats
    /\ queue = <<>>
    /\ last = NoCall
    /\ eventsLeft = 0
    /\ backoff = None
    /\ MonitorIdle
    /\ CookieIdle
    /\ AgentsIdle
    /\ FrontierIdle

notMonitor == <<working_proxies, poolThreadVars, platform, session_id, device_id,
                proxy, task_counter, queue, last, eventsLeft, backoff, cookieVars,
                agentVars, frontierVars>>

\* A spider records the outcome of a request: update_request_stats(success=..).
RecordOutcome(success) ==
    /\ stats.total_requests < MaxOutcomes
    /\ stats' = update_request_stats(stats, success, NoName)
    /\ UNCHANGED <<now, monitorVars, notMonitor>>

\* One iteration of monitor_loop (lines 42-47).  Its first statement,
\* _save_stats_to_redis, starts with datetime.now() (line 103), which raises
\* AttributeError before anything is written: the exception ends the thread.
\* _check_alerts and _clean_expired_nodes are never run, no alert is sent,
\* and there is no second iteration.
MonitorTick ==
    /\ monitor_thread = "started"
    /\ monitor_thread' = "AttributeError"
    /\ ticks' = Append(ticks, [at |-> now, failed |-> stats.failed_requests,
                               total |-> stats.total_requests,
                               nodes |-> nodes, store_up |-> store_up])
    /\ UNCHANGED <<now, nodes, alerts, registrations, store_up, stats, notMonitor>>

\* _register_worker of a spider (jd_spider.py lines 117-121) for worker w:
\* monitor.register_worker evaluates datetime.now() (line 76) before it
\* stores anything and raises AttributeError: the worker is not put into
\* nodes, nothing is sent to Redis, and _start_health_check, the statement
\* after the call, is not reached.
RegisterWorker(w) ==
    /\ \A r \in registrations : r.worker_id # w
    /\ registrations' = registrations \cup
           {[worker_id |-> w, at |-> now, ended |-> "AttributeError",
             health_check |-> FALSE]}
    /\ UNCHANGED <<now, nodes, alerts, monitor_thread, ticks, store_up, stats,
                   notMonitor>>

\* Half a minute passes.
TimePasses ==
    /\ now < MaxTime
    /\ now' = now + TickInterval
    /\ UNCHANGED <<monitorVars, stats, notMonitor>>

\* The Redis server becomes unreachable, or reachable again.
StoreChanges ==
    /\ store_up' = ~store_up
    /\ UNCHANGED <<now, nodes, alerts, monitor_thread, ticks, registrations,
                   stats, notMonitor>>

MonitorNext ==
    \/ \E success \in BOOLEAN : RecordOutcome(success)
    \/ MonitorTick
    \/ \E w \in Workers : RegisterWorker(w)
    \/ TimePasses
    \/ StoreChanges

MonitorSpec == MonitorInit /\ [][MonitorNext]_vars

\* ------------------------------------------------- the delays, retry by retry
\* The delay expression of one retry path of one platform, evaluated for the
\* retry counts a request can carry, one after the other: `delay` is the
\* value for retry count r, `prev` the one for r - 1.
BackoffConfigs ==
    UNION {{[platform |-> p, path |-> pa, page |-> pg] :
               pa \in Paths(p), pg \in 1..MaxPage} : p \in Platforms}

BackoffInit ==
    /\ file = <<>>
    /\ working_proxies = <<>>
    /\ lock = Free
    /\ pc = [t \in Threads |-> IF t = Main THEN "ready" ELSE "loop"]
    /\ toCheck = [t \in Threads |-> <<>>]
    /\ is_working = [t \in Threads |-> FALSE]
    /\ depth = [t \in Threads |-> 0]
    /\ loadIdx = [t \in Threads |-> 0]
    /\ arg = None
    /\ got = None
    /\ opsLeft = 0
    /\ passesLeft = 0
    /\ probeFailsLeft = 0
    /\ evicted = {}
    /\ platform = "jd"
    /\ session_id = 0
    /\ device_id = 0
    /\ proxy = None
    /\ task_counter = 0
    /\ stats = NoStats
    /\ queue = <<>>
    /\ last = NoCall
    /\ eventsLeft = 0
    /\ MonitorIdle
    /\ CookieIdle
    /\ AgentsIdle
    /\ FrontierIdle
    /\ \E c \in BackoffConfigs :
          backoff = [platform |-> c.platform, path |-> c.path, page |-> c.page,
                     r |-> 0, computed |-> FALSE, delay |-> NoDelay,
                     hasPrev |-> FALSE, prev |-> NoDelay]

\* retry_delay = ... : the expression of the path, at the request's retry count.
ComputeDelay ==
    /\ ~backoff.computed
    /\ backoff' = [backoff EXCEPT
                     !.computed = TRUE,
                     !.delay = Backoff(backoff.platform, backoff.path,
                                       backoff.r, backoff.page)]
    /\ UNCHANGED <<working_proxies, poolThreadVars, spiderVars>>
    /\ UNCHANGED <<now, monitorVars, cookieVars, agentVars, frontierVars>>

\* new_meta['retry_times'] = retry_times + 1: the same path, one retry later.
NextRetry ==
    /\ backoff.computed
    /\ backoff.r < RETRY_TIMES(backoff.platform)
    /\ backoff' = [backoff EXCEPT
                     !.r = @ + 1, !.computed = FALSE, !.delay = NoDelay,
                     !.hasPrev = TRUE, !.prev = backoff.delay]
    /\ UNCHANGED <<working_proxies, poolThreadVars, spiderVars>>
    /\ UNCHANGED <<now, monitorVars, cookieVars, agentVars, frontierVars>>

BackoffNext == ComputeDelay \/ NextRetry

BackoffSpec == BackoffInit /\ [][BackoffNext]_vars

\* ---------------------------------------------------------------- sanity
TypeOK ==
    /\ \A i \in 1..Len(working_proxies) : working_proxies[i].proxy \in Addr
    /\ lock \in {Free} \cup Threads
    /\ got \in {None} \cup Addr

\* A non-empty proxy list never drives the model to its recursion bound.
NoSpuriousRaise ==
    file # <<>> => \A t \in Threads : pc[t] # "RecursionError"

\* The initial states of RunSpec are states Spec reaches.
RunInitReached ==
    /\ file # <<>>
    /\ working_proxies = Constructed(file)
    /\ pc[Main] = "ready" /\ pc[Checker] = "loop"
    /\ lock = Free /\ got = None /\ evicted = {}

\* ------------------------------------------------------- claims' vocabulary
\* Thread t is inside _check_all_proxies (lines 66-103).
InPass(t) ==
    pc[t] \in {"check_start", "copy", "probe", "apply", "len_check", "reload"}

\* The step is the body of the main thread's API call op.
Completes(op) == pc[Main] = op /\ pc'[Main] = "ready"

\* The step is the locked block of thread t applying a probe result.
Applies(t) == pc[t] = "apply" /\ pc'[t] # "apply"

\* Number of candidates of wp whose score is not positive.
ZeroCount(wp) == Cardinality({i \in 1..Len(wp) : wp[i].score <= 0})

\* Addresses report_failure has evicted for exceeding the fail_count ceiling.
CeilingEvicted == {e[1] : e \in {x \in evicted : x[2] = "fail_count"}}

\* ------------------------------------------------------------------ claims
\* C1: every candidate in the active set has a score within [0,100], after
\* any interleaving of report_success, report_failure and validation steps.
C1_ScoreInRange ==
    \A i \in 1..Len(working_proxies) :
        working_proxies[i].score >= 0 /\ working_proxies[i].score <= 100

\* C1 witness: a candidate that probes and reports have taken up and down
\* lies at the floor, where report_failure clamped it, beside one at the cap.
C1_Witness ==
    \E i, j \in 1..Len(working_proxies) :
        /\ working_proxies[i].score = 0
        /\ working_proxies[i].fail_count > 0
        /\ working_proxies[i].success_count > 0
        /\ working_proxies[j].score = 100

\* C2 (as claimed): an address report_failure evicted for exceeding the
\* ceiling of 5 failures is never again returned by get_working_proxy.
C2_EvictedNeverReturned ==
    [][Completes("get") => got' \notin CeilingEvicted]_vars

\* C3 (as claimed): with an absent, unreadable or empty proxy source the
\* construction ends without raising and the validation pass does not nest
\* without bound.
C3_EmptySourceConstructs ==
    file = <<>> => \A t \in Threads : pc[t] # "RecursionError"

\* C4: get_working_proxy on an empty active set has exactly one outcome, the
\* result None with the set left empty; the body of a started call can always
\* run to its end; and whenever the daemon thread holds the lock it can finish
\* its locked block and release it, so a call waiting for the lock during a
\* validation pass is not blocked for ever.
C4_EmptyGetReturnsNone ==
    /\ (pc[Main] = "get" /\ working_proxies = <<>>) =>
          get_working_proxy(working_proxies) = {[proxy |-> None, wp |-> <<>>]}
    /\ pc[Main] = "get" => lock = Main /\ ENABLED GetBody
    /\ lock = Checker => ENABLED (Copy(Checker) \/ Apply(Checker))

\* C4 witness: the main thread is inside get_working_proxy on an empty
\* active set while the daemon thread is in the middle of a validation pass.
C4_Witness ==
    /\ pc[Main] = "get"
    /\ working_proxies = <<>>
    /\ pc[Checker] = "probe"

\* C5: in a validation pass a successful probe sets the candidate's score to
\* min(score + 10, 100) and its fail_count to 0; a failed probe lowers the
\* score by 20 and raises fail_count by 1, and the candidate is removed when
\* its score is then <= 0.  No other candidate changes.
C5_ProbeDeltas ==
    [][\A t \in Threads : Applies(t) =>
         LET wp == working_proxies
             i == FirstIdx(wp, Head(toCheck[t]))
         IN  IF i = 0 THEN working_proxies' = wp
             ELSE IF is_working[t]
             THEN working_proxies' =
                    [wp EXCEPT ![i].score = IF @ + 10 > 100 THEN 100 ELSE @ + 10,
                               ![i].fail_count = 0,
                               ![i].success_count = @ + 1]
             ELSE IF wp[i].score - 20 <= 0
             THEN working_proxies' = RemoveAt(wp, i)
             ELSE working_proxies' =
                    [wp EXCEPT ![i].score = @ - 20, ![i].fail_count = @ + 1]
      ]_vars

\* C5 witness: a failed probe has evicted a candidate and another failed
\* probe has left one in the set with a lowered score.
C5_Witness ==
    /\ \E e \in evicted : e[2] = "score"
    /\ \E i \in 1..Len(working_proxies) :
          working_proxies[i].score = 80 /\ working_proxies[i].fail_count = 1

C8_ReloadTriggered ==
    (lock = Free /\ Len(working_proxies) < 3) => \E t \in Threads : InPass(t)

\* C8 (amended): only the length test at the end of a validation pass
\* triggers a reload.  The active set is below 3 with no validation pass in
\* progress only after an eviction by report_failure, which triggers none.
C8_ReloadOnlyAfterPass ==
    (/\ Len(working_proxies) < 3
     /\ \A t \in Threads : ~InPass(t) /\ pc[t] # "RecursionError")
    => \E e \in evicted : e[2] = "fail_count"

\* C8 witness: report_failure has evicted a candidate, the set is below 3 and
\* no thread is validating or reloading.
C8_Witness ==
    /\ Len(working_proxies) < 3
    /\ lock = Free
    /\ CeilingEvicted # {}
    /\ \A t \in Threads : ~InPass(t) /\ pc[t] # "RecursionError"

\* C9 (as claimed): while one thread holds the lock no other thread modifies
\* the active set.  (A step that leaves the lock with its holder is a step of
\* another thread: the holder's own steps release it.)
C9_MutationsUnderLock ==
    [][\A t \in Threads : (lock = t /\ lock' = t) =>
          working_proxies' = working_proxies]_vars

\* ------------------------------------------------------ the spiders' claims
\* A handler has re-enqueued the request it was called for.
Reenqueued == last.handler # "none" /\ last.yielded # <<>>

\* C11: a request a handler re-enqueues carries a retry count greater than
\* or equal to that of the request it replaces: retry_count never decreases
\* across re-enqueues.  (The one re-enqueue that runs is the comment-page
\* retry of pdd, which passes response.meta on; the error callbacks and the
\* parse retries end before their `retry_times + 1`.)
C11_RetryCountNonDecreasing ==
    Reenqueued =>
        \A i \in 1..Len(last.yielded) :
            last.yielded[i].req.retry_times >= last.req.retry_times

\* C11 witness: a comment page of pdd with a retry count above 0 was
\* re-enqueued after a JSON error.
C11_Witness ==
    /\ Reenqueued
    /\ last.handler = "parse_comments"
    /\ last.req.retry_times > 0
    /\ Len(queue) > 0

\* The handler was called for a failure of its task: the errback, or a
\* callback whose response could not be extracted from.
TaskFailed ==
    \/ last.handler = "handle_error"
    \/ /\ last.handler \in {"parse_search", "parse_comments"}
       /\ last.resp.body \in {"no_data", "bad_json", "raises"}

\* C12 (as claimed): a task that fails with its retry count at or above the
\* configured maximum is not re-enqueued, whatever the failure.
C12_NoReenqueueAtBudget ==
    (TaskFailed /\ last.req.retry_times >= RETRY_TIMES(platform))
        => last.yielded = <<>>

\* The errback was called for a failure with one of these statuses, for a
\* request below the retry budget.
ErrbackBelowBudget(statuses) ==
    /\ last.handler = "handle_error"
    /\ last.resp.status \in statuses
    /\ last.req.retry_times < RETRY_TIMES(platform)

\* The handler re-enqueued its request once more, with retry count + 1.
RetriedWithNextCount ==
    \E i \in 1..Len(last.yielded) :
        last.yielded[i].req.retry_times = last.req.retry_times + 1

\* C13 (as claimed): on a failure with status 401, 403 or 429 below the
\* budget the errback of every platform regenerates session id and device
\* fingerprint, selects a proxy again and re-enqueues with retry count + 1.
C13_AuthFailureRotatesAndRetries ==
    ErrbackBelowBudget({401, 403, 429}) =>
        /\ session_id # last.before.session_id
        /\ device_id # last.before.device_id
        /\ RetriedWithNextCount

\* A response parse_search was called for is blocked: an indicator phrase of
\* the platform in its body, or a block status.
Blocked ==
    /\ last.handler = "parse_search"
    /\ \/ HasIndicator(platform, last.resp.phrase)
       \/ last.resp.status \in BlockStatuses

\* C14 (as claimed): a blocked response is never extracted from, and below
\* the budget it leads to a new session id and a re-enqueue with retry
\* count + 1.
C14_BlockedRotatesAndRetries ==
    Blocked =>
        /\ ~last.extracted
        /\ last.req.retry_times < RetryLimit(platform, "anti_crawler") =>
              /\ session_id # last.before.session_id
              /\ RetriedWithNextCount

\* C15 (as claimed): on a failure with a server status below the budget the
\* errback re-enqueues with retry count + 1 and leaves session id, device
\* fingerprint and proxy as they were.
C15_ServerFailureRetriesUnrotated ==
    ErrbackBelowBudget({500, 502, 503, 408}) =>
        /\ RetriedWithNextCount
        /\ session_id = last.before.session_id
        /\ device_id = last.before.device_id
        /\ proxy = last.before.proxy

\* C16 (as claimed): on a network-level failure below the budget the errback
\* re-enqueues exactly one request, with retry count + 1.
C16_NetworkFailureRetriesOnce ==
    ErrbackBelowBudget({NoResponse}) =>
        /\ Len(last.yielded) = 1
        /\ RetriedWithNextCount

\* A callback was called for a response slower than the platform's ceiling.
SlowResponse ==
    /\ last.handler \in {"parse_search", "parse_comments"}
    /\ last.resp.elapsed > TimeoutCeiling(platform)

\* The response has what the extraction looks for and (jd) is not blocked.
Extractable ==
    /\ last.resp.body = "data"
    /\ ~(platform = "jd" /\ last.handler = "parse_search"
                        /\ detect_anti_crawler(last.resp))

C18_BackoffNonDecreasing ==
    (backoff.computed /\ backoff.hasPrev)
        => backoff.delay.det >= backoff.prev.det

\* C18 witness: an exponential path at the last count of its budget, its
\* delay above the one of the count before.
C18_Witness ==
    /\ backoff.computed
    /\ backoff.hasPrev
    /\ backoff.r = RETRY_TIMES(backoff.platform) - 1
    /\ backoff.delay.det > backoff.prev.det

C20_NoExceptionEscapes ==
    TaskFailed => last.ended = "returned"

\* The seed task of the end-to-end scenario: the first page of a jd search,
\* never retried, answered with status 429 (delivered to the errback as an
\* HTTP error, or to the callback).
SeedAnswered429 ==
    /\ platform = "jd"
    /\ last.handler \in {"handle_error", "parse_search"}
    /\ last.req.task_type = "search"
    /\ last.req.page = 1
    /\ last.req.retry_times = 0
    /\ last.resp.status = 429

\* C21 (as claimed): the jd search seed answered with 429 has its identity
\* rotated and waits in the queue again, with retry count 1 and a delay above
\* zero (from where a 200 answer lets it succeed).
C21_SeedRetriedAfter429 ==
    SeedAnswered429 =>
        /\ session_id # last.before.session_id
        /\ \E i \in 1..Len(queue) :
              /\ queue[i].req.retry_times = 1
              /\ queue[i].req.task_type = "search"
              /\ queue[i].delay.det + queue[i].delay.jlo > 0

\* The requests counted for the platforms, all together.
PlatformRequests(st) ==
    st.spider_stats["jd"].requests + st.spider_stats["pdd"].requests
        + st.spider_stats["taobao"].requests

\* C25 (as claimed): every outcome a spider records is counted for its
\* platform too: the per-platform request counts sum to total_requests.
C25_PlatformCountsSumToTotal ==
    /\ PlatformRequests(stats) = stats.total_requests
    /\ last.handler # "none" => stats.spider_stats[platform].requests > 0

\* C28: with no block signal in between, a call of _get_headers regenerates
\* the session id exactly when the counter it finds is a positive multiple
\* of the platform's period (5 jd, 6 taobao, 8 pdd), and the device id
\* changes only in a call that regenerates the session id.
C28_RotationAtMultiples ==
    [][task_counter' = task_counter + 1 =>
         /\ session_id' # session_id <=>
               (task_counter % SessionPeriod(platform) = 0 /\ task_counter > 0)
         /\ device_id' # device_id => session_id' # session_id]_vars

\* C28 witness: the session id was regenerated twice, at the counts N and
\* 2N, the device id with one of the two only.
C28_Witness ==
    /\ task_counter = 2 * SessionPeriod(platform) + 1
    /\ session_id = 2
    /\ device_id = 1

\* ------------------------------------------------------ the monitor's claims
\* An alert of this kind was sent in iteration k of monitor_loop.
AlertSent(kind, k) ==
    \E i \in 1..Len(alerts) : alerts[i].kind = kind /\ alerts[i].tick = k

\* The failure rate failed / max(total, 1) an iteration found is above the
\* threshold (line 126-127), in integers.
RateAboveThreshold(t) ==
    100 * t.failed > failure_rate_percent * (IF t.total > 1 THEN t.total ELSE 1)

\* C22 (as claimed): in every iteration of the monitor loop a failure-rate
\* alert is sent if and only if failed / (failed + succeeded) of the outcomes
\* recorded until then is strictly above the threshold.
C22_AlertIffRateAboveThreshold ==
    \A k \in 1..Len(ticks) :
        AlertSent("failure_rate", k) <=> RateAboveThreshold(ticks[k])

\* C23 (as claimed): a worker that registered and was last active longer ago
\* than the staleness timeout when an iteration of the monitor loop runs is
\* not in nodes afterwards, and an offline alert was sent for it.
C23_StaleWorkerPurgedWithAlert ==
    \A k \in 1..Len(ticks) : \A r \in registrations :
        ticks[k].at - r.at > node_timeout =>
            /\ r.worker_id \notin DOMAIN nodes
            /\ \E i \in 1..Len(alerts) :
                  alerts[i].kind = "offline" /\ alerts[i].worker_id = r.worker_id

\* C24 (as claimed): a registered worker has its heartbeat loop running, and
\* the last_active the monitor holds for it is never older than one
\* heartbeat interval, so that it is never purged.
C24_HeartbeatKeepsWorkerActive ==
    \A r \in registrations :
        /\ r.health_check
        /\ r.worker_id \in DOMAIN nodes
        /\ now - nodes[r.worker_id] <= TickInterval

\* C26 (as claimed): an iteration of the monitor loop that finds fewer
\* active workers than the minimum sends a worker-shortage alert.
C26_ShortageAlertSent ==
    \A k \in 1..Len(ticks) :
        Cardinality(DOMAIN ticks[k].nodes) < min_working_nodes
            => AlertSent("shortage", k)

\* C27 (as claimed): after an iteration of the monitor loop that ran while
\* the store was unreachable the worker has terminated: it records no
\* further request outcome.
C27_StoreOutageStopsWorker ==
    \A k \in 1..Len(ticks) :
        ~ticks[k].store_up => stats.total_requests = ticks[k].total

\* ------------------------------------------------- the cookie store
\* AntiCrawler (utils/anti_crawler.py): self.cookie_store, a pool of cookie
\* bundles per platform with a rotation index and an expiry time, pickled to
\* cookie_store.pkl by save_cookies and read back by load_cookies, which only
\* __init__ calls.  Time is in seconds; time.time() reads positive.
CookieLifetime == 28800
GeneratedBundles == 3
PoolLimit == 5

MaxCookieCalls == 5
CookieTimeStep == 28800
MaxCookieTime == 57601

\* What cookie_store.pkl can hold other than a store that save_cookies wrote:
\* nothing (size 0), and contents that make pickle.load raise or return
\* something else than a store.
\*   "truncated"     a pickle cut short:                 EOFError
\*   "garbage"       bytes that are no pickle:           pickle.UnpicklingError
\*   "bad_number"    b'I1x\n.', an INT opcode no int:    ValueError
\*   "unknown_class" a GLOBAL of a module that is gone:  ModuleNotFoundError
\*   "list"          the pickle of [], a valid pickle:   returns []
\* The platforms whose cookies are asked for and captured.
CookiePlatforms == {"jd", "pdd"}

Damages == {"absent", "empty", "truncated", "garbage", "bad_number",
            "unknown_class", "list"}

\* self.cookie_store after pickle.load returned [].
ListStore == [kind |-> "list", of |-> InitialStore.of]

\* No AntiCrawler: the constructor raised.
NoStore == [kind |-> "none", of |-> InitialStore.of]

\* _generate_platform_cookies: a bundle of random values, told apart by the
\* time it was generated at and its place in the list that was generated.
generate_platform_cookies(t, i) == [origin |-> "generated", at |-> t, no |-> i]

\* The bundle save_response_cookies builds from the Set-Cookie headers.
captured_cookies(t) == [origin |-> "captured", at |-> t, no |-> 0]

\* pickle.load(f), lines 88-90: what it returns or raises.
pickle_load(f) ==
    CASE f.kind = "saved"         -> [ended |-> "returned", value |-> [kind |-> "store", of |-> f.of]]
      [] f.kind = "list"          -> [ended |-> "returned", value |-> ListStore]
      [] f.kind = "truncated"     -> [ended |-> "EOFError", value |-> NoStore]
      [] f.kind = "garbage"       -> [ended |-> "UnpicklingError", value |-> NoStore]
      [] f.kind = "bad_number"    -> [ended |-> "ValueError", value |-> NoStore]
      [] f.kind = "unknown_class" -> [ended |-> "ModuleNotFoundError", value |-> NoStore]

\* load_cookies, lines 85-98, on the store st at time t: the store it leaves
\* and how it ends.  An absent or empty file is not opened; the three caught
\* exceptions give every platform three generated bundles and an expiry
\* (current_idx is left as it is); any other exception leaves the method.
load_cookies(st, f, t) ==
    IF f.kind \in {"absent", "empty"}
    THEN [ended |-> "returned", store |-> st]
    ELSE LET r == pickle_load(f) IN
         IF r.ended = "returned"
         THEN [ended |-> "returned", store |-> r.value]
         ELSE IF r.ended \in {"FileNotFoundError", "EOFError", "UnpicklingError"}
         THEN [ended |-> "returned",
               store |-> [st EXCEPT !.of = [p \in Platforms |->
                    [st.of[p] EXCEPT
                        !.cookies_pool = [i \in 1..GeneratedBundles |->
                                              generate_platform_cookies(t, i)],
                        !.expire_time = t + CookieLifetime]]]]
         ELSE [ended |-> r.ended, store |-> st]

\* save_cookies, lines 100-106: the store is pickled to the file; a failure
\* to write is caught and leaves the file as it was.
save_cookies(f, st, written) ==
    IF written THEN [kind |-> "saved", of |-> st.of] ELSE f

\* _get_valid_cookies, lines 108-127, on the entry info of a platform at time
\* t: stale says whether the pool was regenerated (and saved), at_save is the
\* entry as it was saved, idx the index the bundle was taken at, cookies the
\* bundle returned and info the entry left behind.
get_valid_cookies(info, t) ==
    LET stale == info.cookies_pool = <<>> \/ t > info.expire_time
        fresh == IF stale
                 THEN [cookies_pool |-> [i \in 1..GeneratedBundles |->
                                            generate_platform_cookies(t, i)],
                       current_idx |-> 0,
                       expire_time |-> t + CookieLifetime]
                 ELSE info
    IN [stale |-> stale,
        at_save |-> fresh,
        idx |-> fresh.current_idx,
        cookies |-> fresh.cookies_pool[fresh.current_idx + 1],
        info |-> [fresh EXCEPT !.current_idx =
                      (fresh.current_idx + 1) % Len(fresh.cookies_pool)]]

\* A variant that never drops a bundle.
save_response_cookies_unlimited(info, t) ==
    [info EXCEPT !.cookies_pool = Append(info.cookies_pool, captured_cookies(t))]

\* save_response_cookies, lines 186-191, for a response whose Set-Cookie
\* headers gave a bundle: it is appended, and the oldest bundle is dropped
\* when the pool has more than five.
save_response_cookies(info, t) ==
    LET longer == Append(info.cookies_pool, captured_cookies(t))
    IN [info EXCEPT !.cookies_pool =
            IF Len(longer) > PoolLimit THEN Tail(longer) ELSE longer]

\* ------------------------------------------------- the cookie store, call by call
outsideCookie == <<working_proxies, poolThreadVars, spiderVars, backoff, monitorVars,
                   agentVars, frontierVars>>

CookieInit ==
    /\ file = <<>>
    /\ working_proxies = <<>>
    /\ lock = Free
    /\ pc = [t \in Threads |-> IF t = Main THEN "ready" ELSE "loop"]
    /\ toCheck = [t \in Threads |-> <<>>]
    /\ is_working = [t \in Threads |-> FALSE]
    /\ depth = [t \in Threads |-> 0]
    /\ loadIdx = [t \in Threads |-> 0]
    /\ arg = None
    /\ got = None
    /\ opsLeft = 0
    /\ passesLeft = 0
    /\ probeFailsLeft = 0
    /\ evicted = {}
    /\ platform = "jd"
    /\ session_id = 0
    /\ device_id = 0
    /\ proxy = None
    /\ task_counter = 0
    /\ stats = NoStats
    /\ queue = <<>>
    /\ last = NoCall
    /\ eventsLeft = 0
    /\ backoff = None
    /\ nodes = NoNodes
    /\ alerts = <<>>
    /\ monitor_thread = "started"
    /\ ticks = <<>>
    /\ registrations = {}
    /\ store_up = TRUE
    /\ now = 1
    /\ cookie_file = NoFile
    /\ cookie_store = InitialStore
    /\ cookie_call = NoCookieCall
    /\ cookieCallsLeft = MaxCookieCalls
    /\ AgentsIdle
    /\ FrontierIdle

\* AntiCrawler(), lines 19-25, in the __init__ of a spider of a new process:
\* the store of lines 19-23, then load_cookies.  When load_cookies raises
\* there is no AntiCrawler.
Construct ==
    /\ cookieCallsLeft > 0
    /\ LET r == load_cookies(InitialStore, cookie_file, now) IN
        /\ cookie_store' = IF r.ended = "returned" THEN r.store ELSE NoStore
        /\ cookie_call' = [op |-> "load_cookies", ended |-> r.ended,
                           file |-> cookie_file.kind, at |-> now]
    /\ cookieCallsLeft' = cookieCallsLeft - 1
    /\ UNCHANGED <<cookie_file, now, outsideCookie>>

\* get_<platform>_cookie_string calls _get_valid_cookies(p).  On the list
\* that load_cookies left, self.cookie_store.get raises AttributeError.
GetValidCookies(p) ==
    /\ cookieCallsLeft > 0
    /\ cookie_store.kind \in {"store", "list"}
    /\ IF cookie_store.kind = "list"
       THEN /\ cookie_call' = [op |-> "_get_valid_cookies", ended |-> "AttributeError",
                               platform |-> p, at |-> now]
            /\ UNCHANGED <<cookie_store, cookie_file>>
       ELSE LET r == get_valid_cookies(cookie_store.of[p], now) IN
            /\ cookie_store' = [cookie_store EXCEPT !.of[p] = r.info]
            /\ cookie_call' = [op |-> "_get_valid_cookies", ended |-> "returned",
                               platform |-> p, at |-> now,
                               before |-> cookie_store.of[p],
                               idx |-> r.idx, cookies |-> r.cookies]
            /\ IF r.stale
               THEN \E written \in BOOLEAN :
                        cookie_file' = save_cookies(cookie_file,
                            [cookie_store EXCEPT !.of[p] = r.at_save], written)
               ELSE UNCHANGED cookie_file
    /\ cookieCallsLeft' = cookieCallsLeft - 1
    /\ UNCHANGED <<now, outsideCookie>>

\* save_response_cookies(p, response), lines 154-192.  set_cookie says what
\* the response carries: no Set-Cookie header (line 156), only headers without
\* a name=value part (line 166), or headers that give a bundle.  On the list
\* that load_cookies left, self.cookie_store[platform] raises TypeError.
SaveResponseCookies(p, set_cookie) ==
    /\ cookieCallsLeft > 0
    /\ cookie_store.kind \in {"store", "list"}
    /\ IF set_cookie # "bundle"
       THEN /\ cookie_call' = [op |-> "save_response_cookies", ended |-> "returned",
                               platform |-> p, at |-> now]
            /\ UNCHANGED <<cookie_store, cookie_file>>
       ELSE IF cookie_store.kind = "list"
       THEN /\ cookie_call' = [op |-> "save_response_cookies", ended |-> "TypeError",
                               platform |-> p, at |-> now]
            /\ UNCHANGED <<cookie_store, cookie_file>>
       ELSE /\ cookie_store' = [cookie_store EXCEPT
                                   !.of[p] = save_response_cookies(@, now)]
            /\ cookie_call' = [op |-> "save_response_cookies", ended |-> "returned",
                               platform |-> p, at |-> now]
            /\ \E written \in BOOLEAN :
                   cookie_file' = save_cookies(cookie_file, cookie_store', written)
    /\ cookieCallsLeft' = cookieCallsLeft - 1
    /\ UNCHANGED <<now, outsideCookie>>

\* Something outside the program removes, empties or overwrites
\* cookie_store.pkl.
FileDamaged(d) ==
    /\ cookie_file.kind # d
    /\ cookie_file' = [kind |-> d, of |-> InitialStore.of]
    /\ UNCHANGED <<cookie_store, cookie_call, cookieCallsLeft, now, outsideCookie>>

CookieTimePasses ==
    /\ now + CookieTimeStep <= MaxCookieTime
    /\ now' = now + CookieTimeStep
    /\ UNCHANGED <<cookieVars, outsideCookie>>

CookieNext ==
    \/ Construct
    \/ \E p \in CookiePlatforms : GetValidCookies(p)
    \/ \E p \in CookiePlatforms : \E s \in {"none", "unparsable", "bundle"} :
           SaveResponseCookies(p, s)
    \/ \E d \in Damages : FileDamaged(d)
    \/ CookieTimePasses

CookieSpec == CookieInit /\ [][CookieNext]_vars

\* ------------------------------------------------- the cookie store's claims
\* The last call was a cookie request that found the platform's pool empty or
\* its expiry time lapsed.
RequestOnStalePool ==
    /\ cookie_call.op = "_get_valid_cookies"
    /\ cookie_call.ended = "returned"
    /\ \/ cookie_call.before.cookies_pool = <<>>
       \/ cookie_call.at > cookie_call.before.expire_time

\* After such a request every bundle of the pool was generated by it, the
\* expiry time is a new one, and the bundle returned is the one taken at
\* index 0 of the regenerated pool, the index having been reset before.
PoolRegenerated ==
    RequestOnStalePool =>
        LET info == cookie_store.of[cookie_call.platform] IN
        /\ info.cookies_pool # <<>>
        /\ \A i \in 1..Len(info.cookies_pool) :
               /\ info.cookies_pool[i].origin = "generated"
               /\ info.cookies_pool[i].at = cookie_call.at
               /\ \A j \in 1..Len(cookie_call.before.cookies_pool) :
                      info.cookies_pool[i] # cookie_call.before.cookies_pool[j]
        /\ info.expire_time = cookie_call.at + CookieLifetime
        /\ info.expire_time > cookie_call.before.expire_time
        /\ cookie_call.idx = 0
        /\ cookie_call.cookies = info.cookies_pool[1]

\* C29, as claimed: a cookie request on an empty or expired pool replaces
\* every bundle, resets the rotation index to 0, sets a new expiry and returns
\* a bundle of the regenerated pool; at all times the rotation index is a
\* valid index of the pool and the pool holds at most 5 bundles.
C29_IndexValidAtAllTimes ==
    /\ PoolRegenerated
    /\ cookie_store.kind = "store" =>
           \A p \in Platforms :
               /\ cookie_store.of[p].current_idx \in
                      0..(Len(cookie_store.of[p].cookies_pool) - 1)
               /\ Len(cookie_store.of[p].cookies_pool) <= PoolLimit

\* C29, amended: a cookie request on an empty or expired pool replaces every
\* bundle, takes the bundle it returns at index 0 of the regenerated pool and
\* sets a new expiry; the pool holds at most 5 bundles at all times, and the
\* rotation index is a valid index of the pool whenever the pool is not empty
\* (it is empty, with index 0, until the first request or capture).
C29_IndexValidInNonEmptyPool ==
    /\ PoolRegenerated
    /\ cookie_store.kind = "store" =>
           \A p \in Platforms :
               /\ cookie_store.of[p].cookies_pool # <<>> =>
                      cookie_store.of[p].current_idx \in
                          0..(Len(cookie_store.of[p].cookies_pool) - 1)
               /\ cookie_store.of[p].cookies_pool = <<>> =>
                      cookie_store.of[p].current_idx = 0
               /\ Len(cookie_store.of[p].cookies_pool) <= PoolLimit

\* A request found an expired pool that held a captured bundle and had rotated,
\* and left three generated bundles in its place.
C29_Witness ==
    /\ RequestOnStalePool
    /\ cookie_call.before.cookies_pool # <<>>
    /\ cookie_call.before.current_idx > 0
    /\ \E i \in 1..Len(cookie_call.before.cookies_pool) :
           cookie_call.before.cookies_pool[i].origin = "captured"
    /\ Len(cookie_store.of[cookie_call.platform].cookies_pool) = GeneratedBundles

\* C30, as claimed: load_cookies never raises; whatever cookie_store.pkl
\* holds, it completes and leaves a store of pools that cookie requests can
\* use.
C30_LoadNeverRaises ==
    cookie_call.op = "load_cookies" =>
        /\ cookie_call.ended = "returned"
        /\ cookie_store.kind = "store"

\* ------------------------------------------------- the user agents
\* AntiCrawler._load_user_agents / get_random_ua (anti_crawler.py lines 30-54)
\* and UserAgentMiddleware._load_user_agents / process_request
\* (middlewares.py lines 32-68), both reading the file at USER_AGENTS_PATH.
MaxAgents == 2

\* The files: one that cannot be opened, and those of up to MaxAgents
\* non-blank lines, each a user agent that is mobile or not.
AgentFiles ==
    {Unavailable} \cup
    {[opens |-> TRUE, lines |-> l] :
        l \in UNION {[1..n -> BOOLEAN] : n \in 0..MaxAgents}}

NoUA == UA("none", 0, FALSE)

\* The user agents of the lines of a file.
FromFile(f) == [i \in 1..Len(f.lines) |-> UA("file", i, f.lines[i])]

IsMobile(ua) == ua.mobile
IsDesktop(ua) == ~ua.mobile

\* AntiCrawler._load_user_agents, lines 30-43: the stripped non-blank lines
\* (none, when the file has none), the two defaults when open() raises.
load_user_agents(f) ==
    IF f.opens THEN FromFile(f) ELSE AntiCrawlerDefaults

\* UserAgentMiddleware._load_user_agents, lines 32-52: the lines appended to
\* the three lists, which start empty; the defaults when open() raises.
mw_load_user_agents(f) ==
    IF f.opens
    THEN [user_agents |-> FromFile(f),
          mobile_user_agents |-> SelectSeq(FromFile(f), IsMobile),
          desktop_user_agents |-> SelectSeq(FromFile(f), IsDesktop)]
    ELSE [user_agents |-> MiddlewareDefaults,
          mobile_user_agents |-> <<MiddlewareDefaults[2]>>,
          desktop_user_agents |-> <<MiddlewareDefaults[1]>>]

\* random.choice(seq): any element; IndexError on an empty sequence.
choice(seq) ==
    IF seq = <<>>
    THEN {[ended |-> "IndexError", ua |-> NoUA]}
    ELSE {[ended |-> "returned", ua |-> seq[i]] : i \in 1..Len(seq)}

\* get_random_ua(mobile), lines 44-54, with the list l and the file f as it is
\* at the call.  An empty list reads the file again and takes element 0 of
\* what _load_user_agents returns.
get_random_ua(l, f, mobile) ==
    IF l = <<>>
    THEN IF load_user_agents(f) = <<>>
         THEN {[ended |-> "IndexError", ua |-> NoUA]}
         ELSE {[ended |-> "returned", ua |-> load_user_agents(f)[1]]}
    ELSE IF mobile
         THEN IF SelectSeq(l, IsMobile) # <<>>
              THEN choice(SelectSeq(l, IsMobile))
              ELSE choice(l)
         ELSE choice(l)

\* process_request, lines 54-68, for a spider of that name (every spider has
\* one): pdd takes a mobile user agent; jd and taobao a mobile one when
\* random.random() > 0.3 and a desktop one otherwise.
process_request(mw, name) ==
    IF name = "pdd"
    THEN choice(mw.mobile_user_agents)
    ELSE choice(mw.mobile_user_agents) \cup choice(mw.desktop_user_agents)

outsideAgents == <<working_proxies, poolThreadVars, spiderVars, backoff, now,
                   monitorVars, cookieVars, frontierVars>>

\* A new process: AntiCrawler() (line 14) and the middleware (line 26) load
\* their lists from the file as it is.
LoadAgents ==
    /\ ua_list' = load_user_agents(ua_file)
    /\ mw_agents' = mw_load_user_agents(ua_file)
    /\ ua_source' = ua_file
    /\ ua_call' = NoAgentCall
    /\ UNCHANGED <<ua_file, outsideAgents>>

\* The file is written, emptied, removed or put back.
AgentFileChanges(f) ==
    /\ f # ua_file
    /\ ua_file' = f
    /\ UNCHANGED <<ua_source, ua_list, mw_agents, ua_call, outsideAgents>>

GetRandomUA(mobile) ==
    /\ \E r \in get_random_ua(ua_list, ua_file, mobile) :
           ua_call' = [op |-> "get_random_ua", ended |-> r.ended, ua |-> r.ua,
                       mobile |-> mobile, file |-> ua_file]
    /\ UNCHANGED <<ua_file, ua_source, ua_list, mw_agents, outsideAgents>>

ProcessRequest(name) ==
    /\ \E r \in process_request(mw_agents, name) :
           ua_call' = [op |-> "process_request", ended |-> r.ended, ua |-> r.ua,
                       name |-> name, file |-> ua_file]
    /\ UNCHANGED <<ua_file, ua_source, ua_list, mw_agents, outsideAgents>>

AgentsInit == PoolIdle /\ OutsidePoolIdle

AgentsNext ==
    \/ LoadAgents
    \/ \E f \in AgentFiles : AgentFileChanges(f)
    \/ \E mobile \in BOOLEAN : GetRandomUA(mobile)
    \/ \E name \in Platforms : ProcessRequest(name)

AgentsSpec == AgentsInit /\ [][AgentsNext]_vars

\* ------------------------------------------------- the user agents' claims
\* The file could not be opened or held no user agent, both when the lists
\* were loaded and at the last request.
SourceUnavailableOrEmpty ==
    /\ ua_call.op # "none"
    /\ ua_source.lines = <<>>
    /\ ua_call.file.lines = <<>>

\* C31: when the user-agent source list is unavailable or empty, a request
\* for a user agent returns one of the hard-coded defaults and does not
\* raise, for get_random_ua with and without the mobile hint and for
\* process_request on every platform.
C31_DefaultUserAgent ==
    SourceUnavailableOrEmpty =>
        /\ ua_call.ended = "returned"
        /\ ua_call.ua.from = "default"

\* ------------------------------------------------- seeds and follow-up requests
\* start_requests (jd lines 173-219, pdd 115-150, taobao 115-145), the
\* requests the callbacks yield with a priority, and the scheduler's queue
\* (settings.py line 32: scrapy_redis.queue.PriorityQueue, which pops the
\* request of the highest priority).
MaxKeywords == 2
SeedPages == 2
MaxHandled == 4

\* The keywords a start URL can give: none ('' in pdd and taobao) or a word.
Keywords == {"", "phone", "laptop"}

SeedConfigs ==
    {NoStartUrls} \cup
    {[configured |-> TRUE, keywords |-> l] :
        l \in UNION {[1..n -> Keywords] : n \in 1..MaxKeywords}}

\* The built-in keyword lists (jd line 187, pdd line 126, taobao line 126):
\* distinct words; their first two stand for them.
DefaultKeywords(p) ==
    IF p = "jd" THEN <<"phone", "laptop">> ELSE <<"phone", "computer">>

\* Lines 177-187: the keywords of the start URLs, the built-in ones without.
keywords_of(p, config) ==
    IF config.configured THEN config.keywords ELSE DefaultKeywords(p)

\* A variant that keeps every keyword.
all_keywords(kws) == kws

\* Lines 190-195: the non-empty keywords, each once, in their order.
RECURSIVE unique_keywords(_)
unique_keywords(kws) ==
    IF kws = <<>> THEN <<>>
    ELSE LET front == unique_keywords(SubSeq(kws, 1, Len(kws) - 1))
             kw == kws[Len(kws)]
         IN IF kw # "" /\ \A i \in 1..Len(front) : front[i] # kw
            THEN Append(front, kw)
            ELSE front

\* random.shuffle (line 197): the orders a list can be put in.
Shuffles(s) ==
    {[i \in 1..Len(s) |-> s[q[i]]] :
        q \in {f \in [1..Len(s) -> 1..Len(s)] :
                   \A i, j \in 1..Len(s) : i # j => f[i] # f[j]}}

\* Lines 198-216: the pairs the two loops visit, keyword by keyword and page
\* by page (jd: min(adjusted_max_pages, max_pages) is max_pages).
SeedPairs(order) ==
    [k \in 1..(Len(order) * SeedPages) |->
        [keyword |-> order[((k - 1) \div SeedPages) + 1],
         page |-> ((k - 1) % SeedPages) + 1]]

\* Whether a pair is yielded: jd always yields page 1 (page_prob = 1.0, line
\* 210) and draws for the others; pdd (line 144) and taobao (line 140) draw
\* for every page.
page_kept(p, page) == IF p = "jd" /\ page = 1 THEN {TRUE} ELSE BOOLEAN

\* scrapy.Request without a priority argument.
DefaultPriority == 0

\* _build_search_request: no priority argument (jd lines 256-271).
search_request(keyword, page) ==
    [task_type |-> "search", priority |-> DefaultPriority,
     keyword |-> keyword, page |-> page,
     found_by |-> "start_requests", found_by_priority |-> DefaultPriority]

\* The request of the next search page that parse_search yields (jd line 569,
\* pdd 431, taobao 400), built by _build_search_request as well.
next_search_request(t) ==
    [search_request(t.keyword, t.page + 1) EXCEPT
        !.found_by = t.task_type, !.found_by_priority = t.priority]

\* A variant in which a follow-up is one below the request that found it.
priority_below(p, task_type, t) == t.priority - 1

\* The priority argument of the requests the callbacks yield:
\*   product from parse_search:      jd 3 (line 536), pdd 2 (417), taobao 2 (388)
\*   shop from parse_product:        jd 4 (865), pdd 4 (591), taobao 4 (539)
\*   comment from parse_product:     jd 5 (903), pdd 3 (622), taobao 3 (567)
\*   next page from parse_comments:  jd 6 (1132), pdd 3 (829), taobao 6 (694)
priority_of(p, task_type, t) ==
    CASE task_type = "product" -> IF p = "jd" THEN 3 ELSE 2
      [] task_type = "shop" -> 4
      [] task_type = "comment" /\ t.task_type = "product" -> IF p = "jd" THEN 5 ELSE 3
      [] task_type = "comment" /\ t.task_type = "comment" -> IF p = "pdd" THEN 3 ELSE 6

\* A request of that type yielded by the callback of t.
follow_up(p, task_type, t) ==
    [task_type |-> task_type, priority |-> priority_of(p, task_type, t),
     keyword |-> t.keyword,
     page |-> IF task_type = "comment" THEN
                  (IF t.task_type = "comment" THEN t.page + 1 ELSE 1)
              ELSE 0,
     found_by |-> t.task_type, found_by_priority |-> t.priority]

\* What the callback of t can yield: parse_search a product request per
\* product found and, below max_pages, the next search page; parse_product a
\* shop request and comment requests; parse_comments the next comment page;
\* parse_shop_score no request.
FollowUps(p, t) ==
    CASE t.task_type = "search" ->
            {<<>>, <<follow_up(p, "product", t)>>} \cup
            (IF t.page < SeedPages
             THEN {<<next_search_request(t)>>,
                   <<follow_up(p, "product", t), next_search_request(t)>>}
             ELSE {})
      [] t.task_type = "product" ->
            {<<>>, <<follow_up(p, "shop", t)>>, <<follow_up(p, "comment", t)>>,
             <<follow_up(p, "shop", t), follow_up(p, "comment", t)>>}
      [] t.task_type = "comment" ->
            {<<>>, <<follow_up(p, "comment", t)>>}
      [] t.task_type = "shop" -> {<<>>}

outsideFrontier == <<working_proxies, poolThreadVars, spiderVars, backoff, now,
                     monitorVars, cookieVars, agentVars>>

FrontierInit ==
    /\ PoolIdle
    /\ platform \in Platforms
    /\ session_id = 0
    /\ device_id = 0
    /\ proxy = None
    /\ task_counter = 0
    /\ stats = NoStats
    /\ queue = <<>>
    /\ last = NoCall
    /\ eventsLeft = 0
    /\ backoff = None
    /\ MonitorIdle
    /\ CookieIdle
    /\ AgentsIdle
    /\ started = [r \in Roles |-> FALSE]
    /\ seed_config \in SeedConfigs
    /\ seed_todo = <<>>
    /\ seeds = <<>>
    /\ frontier = <<>>
    /\ popped = NoPop
    /\ handledLeft = MaxHandled

\* start_requests of the spider started as master, up to its first pair:
\* the keywords, made unique and shuffled.
MasterStarts ==
    /\ ~started["master"]
    /\ started' = [started EXCEPT !["master"] = TRUE]
    /\ \E order \in Shuffles(unique_keywords(keywords_of(platform, seed_config))) :
           seed_todo' = SeedPairs(order)
    /\ UNCHANGED <<seed_config, seeds, frontier, popped, handledLeft, outsideFrontier>>

\* start_requests of a spider started as worker (jd lines 216-219): the
\* function is a generator, so `return super().start_requests()` ends it
\* without a request.
WorkerStarts ==
    /\ ~started["worker"]
    /\ started' = [started EXCEPT !["worker"] = TRUE]
    /\ UNCHANGED <<seed_config, seed_todo, seeds, frontier, popped, handledLeft,
                   outsideFrontier>>

\* The master's loops visit the next pair and yield its search request, or
\* skip it; the scheduler pushes what is yielded.
YieldSeed ==
    /\ seed_todo # <<>>
    /\ \E kept \in page_kept(platform, Head(seed_todo).page) :
        IF kept
        THEN /\ seeds' = Append(seeds, [role |-> "master",
                                        keyword |-> Head(seed_todo).keyword,
                                        page |-> Head(seed_todo).page])
             /\ frontier' = Append(frontier,
                    search_request(Head(seed_todo).keyword, Head(seed_todo).page))
        ELSE UNCHANGED <<seeds, frontier>>
    /\ seed_todo' = Tail(seed_todo)
    /\ UNCHANGED <<started, seed_config, popped, handledLeft, outsideFrontier>>

\* A started spider takes the next request from the queue, a pending one of
\* the highest priority, and pushes what its callback yields.
Dequeue ==
    /\ handledLeft > 0
    /\ \E r \in Roles : started[r]
    /\ \E i \in 1..Len(frontier) :
        /\ \A j \in 1..Len(frontier) : frontier[j].priority <= frontier[i].priority
        /\ \E f \in FollowUps(platform, frontier[i]) :
            /\ frontier' = RemoveAt(frontier, i) \o f
            /\ popped' = [task_type |-> frontier[i].task_type, task |-> frontier[i],
                          pending |-> RemoveAt(frontier, i), yielded |-> f]
    /\ handledLeft' = handledLeft - 1
    /\ UNCHANGED <<started, seed_config, seed_todo, seeds, outsideFrontier>>

FrontierNext ==
    \/ MasterStarts
    \/ WorkerStarts
    \/ YieldSeed
    \/ Dequeue

FrontierSpec == FrontierInit /\ [][FrontierNext]_vars

\* ------------------------------------------------- the queue's claims
\* The pending requests that a callback yielded.
Discovered == {i \in 1..Len(frontier) : frontier[i].found_by # "start_requests"}

C33_SeedsDistinctMasterOnly ==
    /\ \A i, j \in 1..Len(seeds) :
           i # j => <<seeds[i].keyword, seeds[i].page>> # <<seeds[j].keyword, seeds[j].page>>
    /\ \A i \in 1..Len(seeds) : seeds[i].role = "master"

\* Both spiders have started, the start URLs named the same keyword twice, and
\* the master has yielded a seed for each of its pages.
C33_Witness ==
    /\ started["master"] /\ started["worker"]
    /\ seed_config.configured
    /\ Len(seed_config.keywords) = 2
    /\ seed_config.keywords[1] = seed_config.keywords[2]
    /\ seed_todo = <<>>
    /\ Len(seeds) = SeedPages

\* ------------------------------------------------- the pool's claims, continued
\* What the health of a candidate consists of.
Health(p) ==
    [proxy |-> p.proxy, score |-> p.score, fail_count |-> p.fail_count,
     success_count |-> p.success_count]

\* The step is the locked block of get_working_proxy.
Selects == pc[Main] = "get" /\ pc'[Main] = "ready"

\* The step changes the score of a candidate that stays where it is.
ScoreChanges ==
    \E i \in 1..Min(Len(working_proxies), Len(working_proxies')) :
        /\ working_proxies'[i].proxy = working_proxies[i].proxy
        /\ working_proxies'[i].score # working_proxies[i].score

\* C34: get_working_proxy leaves the active set with the same candidates and
\* the same score, fail_count and success_count for each (only last_used of
\* the selected one may change); a score changes only in a step of
\* report_failure, of report_success or of a validation pass.
C34_SelectionKeepsHealth ==
    [][/\ Selects =>
            /\ Len(working_proxies') = Len(working_proxies)
            /\ \A i \in 1..Len(working_proxies) :
                   /\ Health(working_proxies'[i]) = Health(working_proxies[i])
                   /\ working_proxies'[i].last_used # working_proxies[i].last_used
                          => got' = working_proxies[i].proxy
       /\ ScoreChanges =>
            \/ pc[Main] \in {"report_failure", "report_success"} /\ pc'[Main] = "ready"
            \/ \E t \in Threads : Applies(t)
      ]_vars

\* A selection has returned an address and marked its candidate as used,
\* in an active set whose scores differ.
C34_Witness ==
    /\ pc[Main] = "ready"
    /\ got # None
    /\ \E i \in 1..Len(working_proxies) :
           /\ working_proxies[i].proxy = got
           /\ working_proxies[i].last_used
    /\ \E i, j \in 1..Len(working_proxies) :
           working_proxies[i].score # working_proxies[j].score

\* ------------------------------------------------- the selection, draw by draw
\* get_working_proxy on active sets of given scores, nothing else running.
MaxSelections == 2
MaxActive == 3
ScoreSamples == {0, 10, 50, 90}

\* Active sets of up to MaxActive candidates with those scores.
ScoredSets ==
    UNION {{[i \in 1..n |-> [NewCandidate(i) EXCEPT !.score = s[i]]] :
                s \in [1..n -> ScoreSamples]} : n \in 0..MaxActive}

SelectionInit ==
    /\ file = <<>>
    /\ working_proxies \in ScoredSets
    /\ lock = Free
    /\ pc = [t \in Threads |-> IF t = Main THEN "ready" ELSE "loop"]
    /\ toCheck = [t \in Threads |-> <<>>]
    /\ is_working = [t \in Threads |-> FALSE]
    /\ depth = [t \in Threads |-> 0]
    /\ loadIdx = [t \in Threads |-> 0]
    /\ arg = None
    /\ got = None
    /\ opsLeft = MaxSelections
    /\ passesLeft = 0
    /\ probeFailsLeft = 0
    /\ evicted = {}
    /\ OutsidePoolIdle

SelectionNext ==
    \/ GetAcquire
    \/ GetBody

SelectionSpec == SelectionInit /\ [][SelectionNext]_vars

\* The share of candidate i in a draw on wp: random.uniform(0, total_score)
\* is uniform, and the loop's outcome is the same for every rand of an
\* interval (r - 1, r] between whole numbers, the scores being whole numbers;
\* so the share is the number of those intervals that stop at i.  Without a
\* positive total random.choice gives every candidate the same share.
Share(wp, i) ==
    IF total_score(wp) <= 0 THEN 1
    ELSE Cardinality({r \in 1..total_score(wp) : PickIdx(wp, r) = i})

\* C35: get_working_proxy selects among the active candidates with a
\* probability proportional to the score (the shares of two candidates are to
\* each other as their scores, 9 to 1 for the scores 90 and 10), some
\* candidate is selected, and the address returned is that of a candidate of
\* the active set.
C35_SelectionProportionalToScore ==
    /\ \A i, j \in 1..Len(working_proxies) :
           Share(working_proxies, i) * working_proxies[j].score
               = Share(working_proxies, j) * working_proxies[i].score
    /\ working_proxies # <<>> =>
           \E i \in 1..Len(working_proxies) : Share(working_proxies, i) > 0
    /\ \A i \in 1..Len(working_proxies) :
           total_score(working_proxies) > 0 =>
               Share(working_proxies, i) = working_proxies[i].score
    /\ pc[Main] = "ready" /\ opsLeft < MaxSelections /\ working_proxies # <<>> =>
           \E i \in 1..Len(working_proxies) : working_proxies[i].proxy = got

\* The draw on two candidates of scores 90 and 10 has returned the one of
\* score 10.
C35_Witness ==
    /\ Len(working_proxies) = 2
    /\ working_proxies[1].score = 90
    /\ working_proxies[2].score = 10
    /\ Share(working_proxies, 1) = 9 * Share(working_proxies, 2)
    /\ pc[Main] = "ready"
    /\ got = working_proxies[2].proxy
    /\ working_proxies[2].last_used

\* ------------------------------------------------- the spiders' claims, continued
\* C36 (as claimed): every re-enqueue caused by a failure carries a retry
\* count strictly greater than that of the failed request, and none happens
\* at or above the budget, so that a task whose target keeps answering the
\* same way is re-enqueued a bounded number of times.
C36_EveryRetryCounts ==
    (TaskFailed /\ Reenqueued) =>
        /\ last.req.retry_times < RETRY_TIMES(platform)
        /\ \A i \in 1..Len(last.yielded) :
               last.yielded[i].req.retry_times > last.req.retry_times

\* parse_search was called for a response without product data that is not
\* one the spider takes for blocked, for a request below the parse-failure
\* budget.
ParseFailureBelowBudget ==
    /\ last.handler = "parse_search"
    /\ last.resp.body = "no_data"
    /\ ~Blocked
    /\ last.req.retry_times < RetryLimit(platform, "parse_failure")

\* C37 (as claimed): on a search response without product data, below the
\* parse-failure budget, the spider counts a failed request, reports the
\* proxy of the request as failed, selects a proxy and re-enqueues the search
\* task with retry count + 1.
C37_ParseFailureRetries ==
    ParseFailureBelowBudget =>
        /\ stats.failed_requests = last.before.stats.failed_requests + 1
        /\ working_proxies # last.before.working_proxies
        /\ RetriedWithNextCount

\* ------------------------------------------------- the pool's claims, the rest
\* C38 (as claimed): the active set holds at most one candidate per proxy
\* address, so it is never longer than the source list has different
\* addresses.
C38_OneCandidatePerAddress ==
    /\ \A i, j \in 1..Len(working_proxies) :
           i # j => working_proxies[i].proxy # working_proxies[j].proxy
    /\ Len(working_proxies) <= Cardinality({file[k] : k \in 1..Len(file)})

\* C39 (as claimed): validation passes never overlap in time: the main
\* thread (the eager pass of __init__) and the daemon thread (the passes of
\* check_loop) are never inside _check_all_proxies together.
C39_PassesNeverOverlap ==
    ~(InPass(Main) /\ InPass(Checker))

\* C40 (as claimed): one response never penalizes the same candidate more
\* than once: over the handling of one response or failure the fail_count of
\* a candidate of the spider's pool grows by at most 1, the one
\* report_failure of the attempt (a candidate that is gone afterwards was
\* evicted by that one report).
C40_OnePenaltyPerResponse ==
    [][\A a \in Addr :
          LET i == FirstIdx(working_proxies, a)
              j == FirstIdx(working_proxies', a)
          IN  i # 0 =>
                IF j # 0
                THEN working_proxies'[j].fail_count <= working_proxies[i].fail_count + 1
                ELSE ReportFailureEvicts(ReportFailureDelta(working_proxies[i]))]_vars
====
